---- MODULE Spec2Model ----
(***************************************************************************)
(* Model of the RedMist Python sample client: the positional MessagePack   *)
(* codec of session_state.py (to_msgpack / from_msgpack of every entity),  *)
(* the snapshot fetch of main.py and the patch handlers of                 *)
(* signalr_client.py.                                                      *)
(*                                                                         *)
(* Python values are tagged records, so that values of different Python    *)
(* types can be compared:                                                  *)
(*   None  [t |-> "none"]            int   [t |-> "int",   i |-> n]        *)
(*   bool  [t |-> "bool", b |-> ..]  str   [t |-> "str",   s |-> ".."]     *)
(*   float [t |-> "float", f |-> n]  (n is the value in tenths)            *)
(*   list  [t |-> "list", l |-> <<..>>]                                    *)
(*   dict  [t |-> "dict", d |-> <<<<key, value>>, ..>>] (insertion order)  *)
(* An exception leaving a function is the value [t |-> "raise", e |-> ..]. *)
(***************************************************************************)
EXTENDS Integers, Sequences, FiniteSets, TLC

VARIABLES
    ent,            \* the object being encoded (None for a payload sent by the server)
    wire,           \* the payload: what to_msgpack returned, as changed on the way
    dec,            \* what from_msgpack returned for the payload
    stage,          \* "new", "wire", "decoded"
    mut,            \* how the payload differs from the encoding of ent
    pc,             \* the client: "start", "listening"
    session_state,  \* the snapshot the client holds (get_current_session_state's result)
    calls,          \* the patch handler calls so far: handler, argument, snapshot
                    \* before and after, and what the handler printed
    filter_arg,     \* the argument of _filter_none_values
    filter_out,     \* what _filter_none_values returned for it
    refiltered,     \* what it returned for filter_out
    main_pc,        \* main(): the place in Program of the statement to run next
                    \* (0: main is not running; past the last: main has returned)
    steps,          \* main(): the statements run so far, each with its outcome
    conn,           \* the hub connection: "none", "connecting", "open", "closed"
    start_pc,       \* RedMistStatusHub.start: "idle", "sleeping", "running"
    opens,          \* how many times _on_open has been called
    seen,           \* when _on_open was last called: how many patches had been
                    \* handled, and whether the snapshot had been fetched (pc)
    subscription,   \* what subscribe_to_event did: whether the connection was
                    \* open, and whether send raised
    heap,           \* the mutable objects (dicts, lists, instances), by address
    h_pc,           \* the payload held in the heap: "new", "decoded", and
                    \* "entity_written" or "data_written" after an assignment
    h_state,        \* the address of the decoded SessionState
    h_again,        \* the address of the SessionState of a second decoding
    h_orig,         \* the value of the payload before the decoding
    h_first         \* the value of the SessionState as it was decoded

codecVars == <<ent, wire, dec, stage, mut>>
hubVars == <<pc, session_state, calls>>
filterVars == <<filter_arg, filter_out, refiltered>>
mainVars == <<main_pc, steps>>
clientVars == <<conn, start_pc, opens, seen, subscription>>
heapVars == <<heap, h_pc, h_state, h_again, h_orig, h_first>>
vars == <<ent, wire, dec, stage, mut, pc, session_state, calls,
          filter_arg, filter_out, refiltered, main_pc, steps,
          conn, start_pc, opens, seen, subscription,
          heap, h_pc, h_state, h_again, h_orig, h_first>>

(***************************************************************************)
(* Python values                                                           *)
(***************************************************************************)
VNone == [t |-> "none"]
VInt(n) == [t |-> "int", i |-> n]
VBool(b) == [t |-> "bool", b |-> b]
VStr(s) == [t |-> "str", s |-> s]
VFloat(n) == [t |-> "float", f |-> n]
VList(l) == [t |-> "list", l |-> l]
VDict(d) == [t |-> "dict", d |-> d]
Raise(e) == [t |-> "raise", e |-> e]
Raised(v) == v.t = "raise"

\* The first exception among the evaluated arguments, in evaluation order.
FirstRaise(args) ==
    LET bad == {i \in 1..Len(args) : Raised(args[i])}
    IN args[CHOOSE i \in bad : \A j \in bad : i <= j]

AnyRaise(args) == \E i \in 1..Len(args) : Raised(args[i])

\* bool(v): Python truth value.  Objects without __bool__/__len__ are true.
Truthy(v) ==
    CASE v.t = "none" -> FALSE
      [] v.t = "int" -> v.i # 0
      [] v.t = "bool" -> v.b
      [] v.t = "str" -> v.s # ""
      [] v.t = "float" -> v.f # 0
      [] v.t = "list" -> v.l # <<>>
      [] v.t = "dict" -> v.d # <<>>
      [] OTHER -> TRUE

\* a or b
PyOr(a, b) == IF Truthy(a) THEN a ELSE b

HasLen(v) == v.t \in {"list", "dict", "str"}

\* len(v), for a value with HasLen
PyLen(v) ==
    CASE v.t = "list" -> Len(v.l)
      [] v.t = "dict" -> Len(v.d)
      [] v.t = "str" -> Len(v.s)

DictHas(d, k) == \E n \in 1..Len(d.d) : d.d[n][1] = k

DictLookup(d, k) == d.d[CHOOSE n \in 1..Len(d.d) : d.d[n][1] = k][2]

\* d.get(k) where d.get(k, dflt) was meant: the default is lost
DictGet_no_default(d, k, dflt) == IF DictHas(d, k) THEN DictLookup(d, k) ELSE VNone

\* d.get(k, dflt)
DictGet(d, k, dflt) == IF DictHas(d, k) THEN DictLookup(d, k) ELSE dflt

\* The characters of the strings of the model
Chars(s) ==
    CASE s = "" -> <<>>
      [] s = "60" -> <<"6", "0">>
      [] s = "ab" -> <<"a", "b">>
      [] OTHER -> [k \in 1..Len(s) |-> "?"]

\* data[i] for an integer i >= 0
GetItem(data, i) ==
    CASE data.t = "list" ->
            IF i < Len(data.l) THEN data.l[i + 1] ELSE Raise("IndexError")
      [] data.t = "dict" ->
            IF DictHas(data, VInt(i)) THEN DictLookup(data, VInt(i))
            ELSE Raise("KeyError")
      [] data.t = "str" ->
            IF i < Len(data.s) THEN VStr(Chars(data.s)[i + 1]) ELSE Raise("IndexError")
      [] OTHER -> Raise("TypeError")

\* <then> if len(data) >= i else <else>: the guard is off by one
IfLen_inclusive(data, i, then, else) ==
    IF ~HasLen(data) THEN Raise("TypeError")
    ELSE IF PyLen(data) >= i THEN then ELSE else

\* <then> if len(data) > i else <else>
IfLen(data, i, then, else) ==
    IF ~HasLen(data) THEN Raise("TypeError")
    ELSE IF PyLen(data) > i THEN then ELSE else

\* data[i] if len(data) > i else None: the sentinel default is lost
Item_default_none(data, i, dflt) == IfLen(data, i, GetItem(data, i), VNone)

\* data[i] if len(data) > i else dflt
Item(data, i, dflt) == IfLen(data, i, GetItem(data, i), dflt)

\* int(v)
ToInt(v) ==
    CASE v.t = "int" -> v
      [] v.t \in {"Flags", "VideoSystemType", "VideoDestinationType"} -> VInt(v.i)
      [] v.t = "bool" -> VInt(IF v.b THEN 1 ELSE 0)
      [] v.t = "float" -> VInt(IF v.f >= 0 THEN v.f \div 10 ELSE -((-v.f) \div 10))
      [] v.t = "raise" -> v
      [] v.t = "str" -> Raise("ValueError")
      [] OTHER -> Raise("TypeError")

(***************************************************************************)
(* Enumerations (IntEnum)                                                  *)
(***************************************************************************)
FlagsMax == 7
VideoSystemTypeMax == 4
VideoDestinationTypeMax == 4

IntEnums == {"Flags", "VideoSystemType", "VideoDestinationType"}

\* A lookup that answers member 0 for a value that is not a member's
EnumCall_lenient(name, max, v) ==
    LET member(n) == [t |-> name, i |-> IF n \in 0..max THEN n ELSE 0]
    IN CASE v.t = "raise" -> v
         [] v.t = "int" -> member(v.i)
         [] v.t \in IntEnums -> member(v.i)
         [] v.t = "bool" -> member(IF v.b THEN 1 ELSE 0)
         [] v.t = "float" -> member(v.f \div 10)
         [] OTHER -> member(0)

\* EnumClass(value): lookup of a member by value.  A member of any IntEnum,
\* True/False and an integral float compare (and hash) equal to their int.
EnumCall(name, max, v) ==
    LET member(n) == IF n \in 0..max THEN [t |-> name, i |-> n]
                     ELSE Raise("ValueError")
    IN CASE v.t = "raise" -> v
         [] v.t = "int" -> member(v.i)
         [] v.t \in IntEnums -> member(v.i)
         [] v.t = "bool" -> member(IF v.b THEN 1 ELSE 0)
         [] v.t = "float" -> IF v.f % 10 = 0 THEN member(v.f \div 10)
                             ELSE Raise("ValueError")
         [] OTHER -> Raise("ValueError")

\* The value as it came, not converted to a member of Flags
Flags_unconverted(v) == v

Flags(v) == EnumCall("Flags", FlagsMax, v)
VideoSystemType(v) == EnumCall("VideoSystemType", VideoSystemTypeMax, v)
VideoDestinationType(v) == EnumCall("VideoDestinationType", VideoDestinationTypeMax, v)

Flags_UNKNOWN == [t |-> "Flags", i |-> 0]
Flags_GREEN == [t |-> "Flags", i |-> 1]
Flags_YELLOW == [t |-> "Flags", i |-> 2]
VideoSystemType_NONE == [t |-> "VideoSystemType", i |-> 0]
VideoDestinationType_NONE == [t |-> "VideoDestinationType", i |-> 0]

(***************************************************************************)
(* datetime / time objects and their ISO-8601 text                         *)
(*   time     [t |-> "time", hh, mm, ss, us]                               *)
(*   datetime [t |-> "datetime", yy, mo, dd, hh, mm, ss, us]               *)
(* (naive values: no tzinfo)                                               *)
(***************************************************************************)
RECURSIVE Digits(_, _)
\* n in decimal, zero-padded to w digits
Digits(n, w) == IF w = 0 THEN "" ELSE Digits(n \div 10, w - 1) \o ToString(n % 10)

VTime(hh, mm, ss, us) == [t |-> "time", hh |-> hh, mm |-> mm, ss |-> ss, us |-> us]
VDatetime(yy, mo, dd, hh, mm, ss, us) ==
    [t |-> "datetime", yy |-> yy, mo |-> mo, dd |-> dd,
     hh |-> hh, mm |-> mm, ss |-> ss, us |-> us]

\* time.isoformat(timespec="seconds"): the microsecond is dropped
time_isoformat_seconds(x) ==
    Digits(x.hh, 2) \o ":" \o Digits(x.mm, 2) \o ":" \o Digits(x.ss, 2)

\* time.isoformat(): HH:MM:SS, with .ffffff when the microsecond is not 0
time_isoformat(x) ==
    Digits(x.hh, 2) \o ":" \o Digits(x.mm, 2) \o ":" \o Digits(x.ss, 2)
      \o (IF x.us # 0 THEN "." \o Digits(x.us, 6) ELSE "")

\* datetime.isoformat(): YYYY-MM-DDTHH:MM:SS[.ffffff]
datetime_isoformat(x) ==
    Digits(x.yy, 4) \o "-" \o Digits(x.mo, 2) \o "-" \o Digits(x.dd, 2)
      \o "T" \o time_isoformat(x)

\* The texts time.fromisoformat reads as the clock x: HH[:MM[:SS[.fff[fff]]]]
ClockTexts(x) ==
    LET h == Digits(x.hh, 2)
        hm == h \o ":" \o Digits(x.mm, 2)
        hms == hm \o ":" \o Digits(x.ss, 2)
    IN {hms \o "." \o Digits(x.us, 6)}
         \cup (IF x.us % 1000 = 0 THEN {hms \o "." \o Digits(x.us \div 1000, 3)} ELSE {})
         \cup (IF x.us = 0 THEN {hms} ELSE {})
         \cup (IF x.us = 0 /\ x.ss = 0 THEN {hm} ELSE {})
         \cup (IF x.us = 0 /\ x.ss = 0 /\ x.mm = 0 THEN {h} ELSE {})

\* The texts datetime.fromisoformat reads as x: YYYY-MM-DD[*HH[:MM[:SS[.fff[fff]]]]]
DatetimeTexts(x) ==
    LET d == Digits(x.yy, 4) \o "-" \o Digits(x.mo, 2) \o "-" \o Digits(x.dd, 2)
    IN {d \o sep \o c : sep \in {"T", " "}, c \in ClockTexts(x)}
         \cup (IF x.us = 0 /\ x.ss = 0 /\ x.mm = 0 /\ x.hh = 0 THEN {d} ELSE {})

\* The time and datetime values of the model
Times == {VTime(hh, mm, ss, us) :
            hh \in {0, 23}, mm \in {0, 59}, ss \in {0, 30}, us \in {0, 250000, 123456}}
Datetimes == {VDatetime(2025, mo, 5, hh, mm, ss, us) :
            mo \in {1, 12}, hh \in {0, 23}, mm \in {0, 59}, ss \in {0, 30},
            us \in {0, 250000}}

TimeTextTable == [x \in Times |-> ClockTexts(x)]
DatetimeTextTable == [x \in Datetimes |-> DatetimeTexts(x)]

\* time.fromisoformat(s)
time_fromisoformat(s) ==
    LET m == {x \in Times : s \in TimeTextTable[x]}
    IN IF m = {} THEN Raise("ValueError") ELSE CHOOSE x \in m : TRUE

\* datetime.fromisoformat(s)
datetime_fromisoformat(s) ==
    LET m == {x \in Datetimes : s \in DatetimeTextTable[x]}
    IN IF m = {} THEN Raise("ValueError") ELSE CHOOSE x \in m : TRUE

\* datetime.fromtimestamp(n) for n seconds into January 1970 (UTC clock)
datetime_fromtimestamp(n) ==
    IF n < 0 \/ n >= 31 * 86400 THEN Raise("OSError")
    ELSE VDatetime(1970, 1, 1 + n \div 86400, (n % 86400) \div 3600,
                   (n % 3600) \div 60, n % 60, 0)

_parse_datetime(value) ==
    CASE value.t = "none" -> VNone
      [] value.t = "datetime" -> value
      [] value.t = "str" -> datetime_fromisoformat(value.s)
      [] value.t = "int" -> datetime_fromtimestamp(value.i)
      [] value.t \in IntEnums -> datetime_fromtimestamp(value.i)
      [] value.t = "bool" -> datetime_fromtimestamp(IF value.b THEN 1 ELSE 0)
      [] value.t = "float" -> datetime_fromtimestamp(value.f \div 10)
      [] value.t = "raise" -> value
      [] OTHER -> VNone

_parse_time(value) ==
    CASE value.t = "none" -> VNone
      [] value.t = "time" -> value
      [] value.t = "str" -> time_fromisoformat(value.s)
      [] value.t = "raise" -> value
      [] OTHER -> VNone

\* An encoding of the timestamps that writes "" for an absent one
IsoOrNone_empty(x) ==
    IF ~Truthy(x) THEN VStr("")
    ELSE CASE x.t = "time" -> VStr(time_isoformat(x))
           [] x.t = "datetime" -> VStr(datetime_isoformat(x))
           [] OTHER -> Raise("AttributeError")

\* x.isoformat() if x else None
IsoOrNone(x) ==
    IF ~Truthy(x) THEN VNone
    ELSE CASE x.t = "time" -> VStr(time_isoformat(x))
           [] x.t = "datetime" -> VStr(datetime_isoformat(x))
           [] OTHER -> Raise("AttributeError")

(***************************************************************************)
(* Iteration and method calls                                              *)
(***************************************************************************)
\* The items a for loop over v visits (a dict yields its keys)
Iterable(v) == v.t \in {"list", "dict", "str"}
IterItems(v) ==
    CASE v.t = "list" -> v.l
      [] v.t = "dict" -> [k \in 1..Len(v.d) |-> v.d[k][1]]
      [] v.t = "str" -> [k \in 1..Len(v.s) |-> VStr(Chars(v.s)[k])]

\* [F(x) for x in v]
MapIter(F(_), v) ==
    IF Raised(v) THEN v
    ELSE IF ~Iterable(v) THEN Raise("TypeError")
    ELSE LET xs == IterItems(v)
             r == [k \in 1..Len(xs) |-> F(xs[k])]
         IN IF AnyRaise(r) THEN FirstRaise(r) ELSE VList(r)

\* obj.method(), where the method is the one class cls defines
Method(cls, F(_), obj) ==
    IF Raised(obj) THEN obj
    ELSE IF obj.t = cls THEN F(obj) ELSE Raise("AttributeError")

\* [x.method() for x in v]
MapMethod(cls, F(_), v) ==
    IF Raised(v) THEN v
    ELSE IF ~Iterable(v) THEN Raise("TypeError")
    ELSE LET xs == IterItems(v)
             r == [k \in 1..Len(xs) |-> Method(cls, F, xs[k])]
         IN IF AnyRaise(r) THEN FirstRaise(r) ELSE VList(r)

\* <then> if len(data) > i else <else>: the test of data[i] is left out
IfLenAnd_unchecked(data, i, then, else) ==
    IF ~HasLen(data) THEN Raise("TypeError")
    ELSE IF PyLen(data) > i THEN then ELSE else

\* <then> if len(data) > i and data[i] else <else>
IfLenAnd(data, i, then, else) ==
    IF ~HasLen(data) THEN Raise("TypeError")
    ELSE IF PyLen(data) > i
         THEN LET x == GetItem(data, i)
              IN IF Raised(x) THEN x ELSE IF Truthy(x) THEN then ELSE else
         ELSE else

(***************************************************************************)
(* session_state.py: the entity classes                                    *)
(***************************************************************************)
\* CarPosition.INVALID_POSITION
INVALID_POSITION == -999

\* VideoDestination.__init__: the signature's default arguments
VideoDestination_defaults ==
    <<VideoDestinationType_NONE,
      VStr(""),
      VStr(""),
      VInt(0),
      VStr("")>>

\* VideoDestination.__init__(*args): the object built from the arguments
VideoDestination_init(args) ==
    [t |-> "VideoDestination",
     type |-> args[1],
     url |-> args[2],
     host_name |-> args[3],
     port |-> args[4],
     parameters |-> args[5]]

\* VideoDestination()
VideoDestination_new == VideoDestination_init(VideoDestination_defaults)

\* VideoStatus.__init__: the signature's default arguments
VideoStatus_defaults ==
    <<VideoSystemType_NONE,
      VNone>>

\* VideoStatus.__init__(*args): the object built from the arguments
VideoStatus_init(args) ==
    [t |-> "VideoStatus",
     video_system_type |-> args[1],
     video_destination |-> PyOr(args[2], VideoDestination_new)]

\* CompletedSection.__init__: the signature's default arguments
CompletedSection_defaults ==
    <<VStr(""),
      VStr(""),
      VInt(0),
      VInt(0),
      VInt(0)>>

\* CompletedSection.__init__(*args): the object built from the arguments
CompletedSection_init(args) ==
    [t |-> "CompletedSection",
     number |-> args[1],
     section_id |-> args[2],
     elapsed_time_ms |-> args[3],
     last_section_time_ms |-> args[4],
     last_lap |-> args[5]]

\* EventEntry.__init__: the signature's default arguments
EventEntry_defaults ==
    <<VStr(""),
      VStr(""),
      VStr(""),
      VStr("")>>

\* EventEntry.__init__(*args): the object built from the arguments
EventEntry_init(args) ==
    [t |-> "EventEntry",
     number |-> args[1],
     name |-> args[2],
     team |-> args[3],
     class_name |-> args[4]]

\* CarPosition.__init__: the signature's default arguments
CarPosition_defaults ==
    <<VNone,
      VNone,
      VNone,
      VInt(0),
      VNone,
      VNone,
      VInt(0),
      VBool(FALSE),
      VBool(FALSE),
      VNone,
      VNone,
      VNone,
      VNone,
      VNone,
      VNone,
      VInt(0),
      VNone,
      VNone,
      VNone,
      VNone,
      VInt(0),
      VInt(0),
      VInt(0),
      VInt(INVALID_POSITION),
      VInt(0),
      VInt(INVALID_POSITION),
      VBool(FALSE),
      VBool(FALSE),
      VInt(0),
      VInt(0),
      VInt(0),
      VBool(FALSE),
      VBool(FALSE),
      VBool(FALSE),
      VBool(FALSE),
      VBool(FALSE),
      VStr(""),
      VBool(FALSE),
      Flags_UNKNOWN,
      Flags_UNKNOWN,
      VNone,
      VNone,
      VInt(0),
      VNone,
      VStr(""),
      VStr(""),
      VNone,
      VNone,
      VNone,
      VStr(""),
      VBool(FALSE)>>

\* CarPosition.__init__(*args): the object built from the arguments
CarPosition_init(args) ==
    [t |-> "CarPosition",
     event_id |-> args[1],
     session_id |-> args[2],
     number |-> args[3],
     transponder_id |-> args[4],
     car_class |-> args[5],
     best_time |-> args[6],
     best_lap |-> args[7],
     is_best_time |-> args[8],
     is_best_time_class |-> args[9],
     in_class_gap |-> args[10],
     in_class_difference |-> args[11],
     overall_gap |-> args[12],
     overall_difference |-> args[13],
     total_time |-> args[14],
     last_lap_time |-> args[15],
     last_lap_completed |-> args[16],
     pit_stop_count |-> args[17],
     last_lap_pitted |-> args[18],
     laps_led_overall |-> args[19],
     laps_led_in_class |-> args[20],
     overall_position |-> args[21],
     class_position |-> args[22],
     overall_starting_position |-> args[23],
     overall_positions_gained |-> args[24],
     in_class_starting_position |-> args[25],
     in_class_positions_gained |-> args[26],
     is_overall_most_positions_gained |-> args[27],
     is_class_most_positions_gained |-> args[28],
     penalty_laps |-> args[29],
     penalty_warnings |-> args[30],
     black_flags |-> args[31],
     is_entered_pit |-> args[32],
     is_pit_start_finish |-> args[33],
     is_exited_pit |-> args[34],
     is_in_pit |-> args[35],
     lap_included_pit |-> args[36],
     last_loop_name |-> args[37],
     is_stale |-> args[38],
     track_flag |-> args[39],
     local_flag |-> args[40],
     lap_had_local_flag |-> args[41],
     completed_sections |-> PyOr(args[42], VList(<<>>)),
     projected_lap_time_ms |-> args[43],
     lap_start_time |-> args[44],
     driver_name |-> args[45],
     driver_id |-> args[46],
     in_car_video |-> args[47],
     latitude |-> args[48],
     longitude |-> args[49],
     current_status |-> args[50],
     impact_warning |-> args[51]]

\* FlagDuration.__init__: the signature's default arguments
FlagDuration_defaults ==
    <<Flags_UNKNOWN,
      VNone,
      VNone>>

\* FlagDuration.__init__(*args): the object built from the arguments
FlagDuration_init(args) ==
    [t |-> "FlagDuration",
     flag |-> args[1],
     start_time |-> args[2],
     end_time |-> args[3]]

\* Section.__init__: the signature's default arguments
Section_defaults ==
    <<VStr(""),
      VInt(0),
      VStr(""),
      VStr("")>>

\* Section.__init__(*args): the object built from the arguments
Section_init(args) ==
    [t |-> "Section",
     name |-> args[1],
     length_inches |-> args[2],
     start_label |-> args[3],
     end_label |-> args[4]]

\* Announcement.__init__: the signature's default arguments
Announcement_defaults ==
    <<VNone,
      VStr(""),
      VStr("")>>

\* Announcement.__init__(*args): the object built from the arguments
Announcement_init(args) ==
    [t |-> "Announcement",
     timestamp |-> args[1],
     priority |-> args[2],
     text |-> args[3]]

\* SessionState.__init__: the signature's default arguments
SessionState_defaults ==
    <<VInt(0),
      VStr(""),
      VInt(0),
      VStr(""),
      VInt(0),
      VStr(""),
      VStr(""),
      VStr(""),
      VBool(FALSE),
      VNone,
      VNone,
      VFloat(0),
      VBool(FALSE),
      VNone,
      VNone,
      Flags_UNKNOWN,
      VNone,
      VNone,
      VNone,
      VNone,
      VNone,
      VNone,
      VNone,
      VNone,
      VNone,
      VNone,
      VNone,
      VNone,
      VNone>>

\* SessionState.__init__(*args): the object built from the arguments
SessionState_init(args) ==
    [t |-> "SessionState",
     event_id |-> args[1],
     event_name |-> args[2],
     session_id |-> args[3],
     session_name |-> args[4],
     laps_to_go |-> args[5],
     time_to_go |-> args[6],
     local_time_of_day |-> args[7],
     running_race_time |-> args[8],
     is_practice_qualifying |-> args[9],
     session_start_time |-> args[10],
     session_end_time |-> args[11],
     local_time_zone_offset |-> args[12],
     is_live |-> args[13],
     event_entries |-> PyOr(args[14], VList(<<>>)),
     car_positions |-> PyOr(args[15], VList(<<>>)),
     current_flag |-> args[16],
     flag_durations |-> PyOr(args[17], VList(<<>>)),
     green_time_ms |-> args[18],
     green_laps |-> args[19],
     yellow_time_ms |-> args[20],
     yellow_laps |-> args[21],
     number_of_yellows |-> args[22],
     red_time_ms |-> args[23],
     average_race_speed |-> args[24],
     lead_changes |-> args[25],
     sections |-> PyOr(args[26], VList(<<>>)),
     class_colors |-> PyOr(args[27], VDict(<<>>)),
     announcements |-> PyOr(args[28], VList(<<>>)),
     last_updated |-> args[29]]


(***************************************************************************)
(* session_state.py: to_msgpack / from_msgpack                             *)
(***************************************************************************)
\* VideoDestination.to_msgpack(self)
VideoDestination_to_msgpack(self) ==
    LET out == <<ToInt(self.type),
                 self.url,
                 self.host_name,
                 self.port,
                 self.parameters>>
    IN IF AnyRaise(out) THEN FirstRaise(out) ELSE VList(out)

\* A decoder that refuses an array of more values than the class has fields
VideoDestination_from_msgpack_strict(data) ==
    LET args == <<IfLen(data, 0, VideoDestinationType(GetItem(data, 0)), VideoDestinationType_NONE),
                  Item(data, 1, VStr("")),
                  Item(data, 2, VStr("")),
                  Item(data, 3, VInt(0)),
                  Item(data, 4, VStr("")),
                  IfLen(data, 5, Raise("TypeError"), VNone)>>
    IN IF AnyRaise(args) THEN FirstRaise(args)
       ELSE VideoDestination_init(SubSeq(args, 1, 5))

\* VideoDestination.from_msgpack(data)
VideoDestination_from_msgpack(data) ==
    LET args == <<IfLen(data, 0, VideoDestinationType(GetItem(data, 0)), VideoDestinationType_NONE),
                  Item(data, 1, VStr("")),
                  Item(data, 2, VStr("")),
                  Item(data, 3, VInt(0)),
                  Item(data, 4, VStr(""))>>
    IN IF AnyRaise(args) THEN FirstRaise(args) ELSE VideoDestination_init(args)

\* VideoStatus()
VideoStatus_new == VideoStatus_init(VideoStatus_defaults)

\* VideoStatus.to_msgpack(self)
VideoStatus_to_msgpack(self) ==
    LET out == <<ToInt(self.video_system_type),
                 Method("VideoDestination", VideoDestination_to_msgpack, self.video_destination)>>
    IN IF AnyRaise(out) THEN FirstRaise(out) ELSE VList(out)

\* VideoStatus.from_msgpack(data)
VideoStatus_from_msgpack(data) ==
    LET args == <<IfLen(data, 0, VideoSystemType(GetItem(data, 0)), VideoSystemType_NONE),
                  IfLenAnd(data, 1, VideoDestination_from_msgpack(GetItem(data, 1)), VideoDestination_new)>>
    IN IF AnyRaise(args) THEN FirstRaise(args) ELSE VideoStatus_init(args)

\* CompletedSection()
CompletedSection_new == CompletedSection_init(CompletedSection_defaults)

\* CompletedSection.to_msgpack(self)
CompletedSection_to_msgpack(self) ==
    LET out == <<self.number,
                 self.section_id,
                 self.elapsed_time_ms,
                 self.last_section_time_ms,
                 self.last_lap>>
    IN IF AnyRaise(out) THEN FirstRaise(out) ELSE VList(out)

\* CompletedSection.from_msgpack(data)
CompletedSection_from_msgpack(data) ==
    LET args == <<Item(data, 0, VStr("")),
                  Item(data, 1, VStr("")),
                  Item(data, 2, VInt(0)),
                  Item(data, 3, VInt(0)),
                  Item(data, 4, VInt(0))>>
    IN IF AnyRaise(args) THEN FirstRaise(args) ELSE CompletedSection_init(args)

\* EventEntry()
EventEntry_new == EventEntry_init(EventEntry_defaults)

\* EventEntry.to_msgpack(self)
EventEntry_to_msgpack(self) ==
    LET out == <<self.number,
                 self.name,
                 self.team,
                 self.class_name>>
    IN IF AnyRaise(out) THEN FirstRaise(out) ELSE VList(out)

\* EventEntry.from_msgpack(data)
EventEntry_from_msgpack(data) ==
    LET args == <<Item(data, 0, VStr("")),
                  Item(data, 1, VStr("")),
                  Item(data, 2, VStr("")),
                  Item(data, 3, VStr(""))>>
    IN IF AnyRaise(args) THEN FirstRaise(args) ELSE EventEntry_init(args)

\* CarPosition()
CarPosition_new == CarPosition_init(CarPosition_defaults)

\* CarPosition.to_msgpack(self)
CarPosition_to_msgpack(self) ==
    LET out == <<self.event_id,
                 self.session_id,
                 self.number,
                 self.transponder_id,
                 self.car_class,
                 self.best_time,
                 self.best_lap,
                 self.is_best_time,
                 self.is_best_time_class,
                 self.in_class_gap,
                 self.in_class_difference,
                 self.overall_gap,
                 self.overall_difference,
                 self.total_time,
                 self.last_lap_time,
                 self.last_lap_completed,
                 self.pit_stop_count,
                 self.last_lap_pitted,
                 self.laps_led_overall,
                 self.laps_led_in_class,
                 self.overall_position,
                 self.class_position,
                 self.overall_starting_position,
                 self.overall_positions_gained,
                 self.in_class_starting_position,
                 self.in_class_positions_gained,
                 self.is_overall_most_positions_gained,
                 self.is_class_most_positions_gained,
                 self.penalty_laps,
                 self.penalty_warnings,
                 self.black_flags,
                 self.is_entered_pit,
                 self.is_pit_start_finish,
                 self.is_exited_pit,
                 self.is_in_pit,
                 self.lap_included_pit,
                 self.last_loop_name,
                 self.is_stale,
                 ToInt(self.track_flag),
                 ToInt(self.local_flag),
                 self.lap_had_local_flag,
                 MapMethod("CompletedSection", CompletedSection_to_msgpack, self.completed_sections),
                 self.projected_lap_time_ms,
                 IsoOrNone(self.lap_start_time),
                 self.driver_name,
                 self.driver_id,
                 IF Truthy(self.in_car_video) THEN Method("VideoStatus", VideoStatus_to_msgpack, self.in_car_video) ELSE VNone,
                 self.latitude,
                 self.longitude,
                 self.current_status,
                 self.impact_warning>>
    IN IF AnyRaise(out) THEN FirstRaise(out) ELSE VList(out)

\* CarPosition.from_msgpack(data)
CarPosition_from_msgpack(data) ==
    LET args == <<Item(data, 0, VNone),
                  Item(data, 1, VNone),
                  Item(data, 2, VNone),
                  Item(data, 3, VInt(0)),
                  Item(data, 4, VNone),
                  Item(data, 5, VNone),
                  Item(data, 6, VInt(0)),
                  Item(data, 7, VBool(FALSE)),
                  Item(data, 8, VBool(FALSE)),
                  Item(data, 9, VNone),
                  Item(data, 10, VNone),
                  Item(data, 11, VNone),
                  Item(data, 12, VNone),
                  Item(data, 13, VNone),
                  Item(data, 14, VNone),
                  Item(data, 15, VInt(0)),
                  Item(data, 16, VNone),
                  Item(data, 17, VNone),
                  Item(data, 18, VNone),
                  Item(data, 19, VNone),
                  Item(data, 20, VInt(0)),
                  Item(data, 21, VInt(0)),
                  Item(data, 22, VInt(0)),
                  Item(data, 23, VInt(INVALID_POSITION)),
                  Item(data, 24, VInt(0)),
                  Item(data, 25, VInt(INVALID_POSITION)),
                  Item(data, 26, VBool(FALSE)),
                  Item(data, 27, VBool(FALSE)),
                  Item(data, 28, VInt(0)),
                  Item(data, 29, VInt(0)),
                  Item(data, 30, VInt(0)),
                  Item(data, 31, VBool(FALSE)),
                  Item(data, 32, VBool(FALSE)),
                  Item(data, 33, VBool(FALSE)),
                  Item(data, 34, VBool(FALSE)),
                  Item(data, 35, VBool(FALSE)),
                  Item(data, 36, VStr("")),
                  Item(data, 37, VBool(FALSE)),
                  IfLen(data, 38, Flags(GetItem(data, 38)), Flags_UNKNOWN),
                  IfLen(data, 39, Flags(GetItem(data, 39)), Flags_UNKNOWN),
                  Item(data, 40, VNone),
                  IfLenAnd(data, 41, MapIter(CompletedSection_from_msgpack, GetItem(data, 41)), VList(<<>>)),
                  Item(data, 42, VInt(0)),
                  IfLen(data, 43, _parse_time(GetItem(data, 43)), VNone),
                  Item(data, 44, VStr("")),
                  Item(data, 45, VStr("")),
                  IfLenAnd(data, 46, VideoStatus_from_msgpack(GetItem(data, 46)), VNone),
                  Item(data, 47, VNone),
                  Item(data, 48, VNone),
                  Item(data, 49, VStr("")),
                  Item(data, 50, VBool(FALSE))>>
    IN IF AnyRaise(args) THEN FirstRaise(args) ELSE CarPosition_init(args)

\* FlagDuration()
FlagDuration_new == FlagDuration_init(FlagDuration_defaults)

\* FlagDuration.to_msgpack(self)
FlagDuration_to_msgpack(self) ==
    LET out == <<ToInt(self.flag),
                 IsoOrNone(self.start_time),
                 IsoOrNone(self.end_time)>>
    IN IF AnyRaise(out) THEN FirstRaise(out) ELSE VList(out)

\* FlagDuration.from_msgpack(data)
FlagDuration_from_msgpack(data) ==
    LET args == <<IfLen(data, 0, Flags(GetItem(data, 0)), Flags_UNKNOWN),
                  IfLen(data, 1, _parse_datetime(GetItem(data, 1)), VNone),
                  IfLen(data, 2, _parse_datetime(GetItem(data, 2)), VNone)>>
    IN IF AnyRaise(args) THEN FirstRaise(args) ELSE FlagDuration_init(args)

\* Section()
Section_new == Section_init(Section_defaults)

\* Section.to_msgpack(self)
Section_to_msgpack(self) ==
    LET out == <<self.name,
                 self.length_inches,
                 self.start_label,
                 self.end_label>>
    IN IF AnyRaise(out) THEN FirstRaise(out) ELSE VList(out)

\* Section.from_msgpack(data)
Section_from_msgpack(data) ==
    LET args == <<Item(data, 0, VStr("")),
                  Item(data, 1, VInt(0)),
                  Item(data, 2, VStr("")),
                  Item(data, 3, VStr(""))>>
    IN IF AnyRaise(args) THEN FirstRaise(args) ELSE Section_init(args)

\* Announcement()
Announcement_new == Announcement_init(Announcement_defaults)

\* Announcement.to_msgpack(self)
Announcement_to_msgpack(self) ==
    LET out == <<IsoOrNone(self.timestamp),
                 self.priority,
                 self.text>>
    IN IF AnyRaise(out) THEN FirstRaise(out) ELSE VList(out)

\* Announcement.from_msgpack(data)
Announcement_from_msgpack(data) ==
    LET args == <<IfLen(data, 0, _parse_datetime(GetItem(data, 0)), VNone),
                  Item(data, 1, VStr("")),
                  Item(data, 2, VStr(""))>>
    IN IF AnyRaise(args) THEN FirstRaise(args) ELSE Announcement_init(args)

\* SessionState()
SessionState_new == SessionState_init(SessionState_defaults)

\* SessionState.to_msgpack_dict(self)
SessionState_to_msgpack_dict(self) ==
    LET out == <<self.event_id,
                 self.event_name,
                 self.session_id,
                 self.session_name,
                 self.laps_to_go,
                 self.time_to_go,
                 self.local_time_of_day,
                 self.running_race_time,
                 self.is_practice_qualifying,
                 IsoOrNone(self.session_start_time),
                 IsoOrNone(self.session_end_time),
                 self.local_time_zone_offset,
                 self.is_live,
                 MapMethod("EventEntry", EventEntry_to_msgpack, self.event_entries),
                 MapMethod("CarPosition", CarPosition_to_msgpack, self.car_positions),
                 ToInt(self.current_flag),
                 MapMethod("FlagDuration", FlagDuration_to_msgpack, self.flag_durations),
                 self.green_time_ms,
                 self.green_laps,
                 self.yellow_time_ms,
                 self.yellow_laps,
                 self.number_of_yellows,
                 self.red_time_ms,
                 self.average_race_speed,
                 self.lead_changes,
                 MapMethod("Section", Section_to_msgpack, self.sections),
                 self.class_colors,
                 MapMethod("Announcement", Announcement_to_msgpack, self.announcements),
                 IsoOrNone(self.last_updated)>>
    IN IF AnyRaise(out) THEN FirstRaise(out) ELSE VDict([k \in 1..Len(out) |-> <<VInt(k - 1), out[k]>>])

\* SessionState.from_msgpack_dict(data)
SessionState_from_msgpack_dict(data) ==
    LET args == <<DictGet(data, VInt(0), VInt(0)),
                  DictGet(data, VInt(1), VStr("")),
                  DictGet(data, VInt(2), VInt(0)),
                  DictGet(data, VInt(3), VStr("")),
                  DictGet(data, VInt(4), VInt(0)),
                  DictGet(data, VInt(5), VStr("")),
                  DictGet(data, VInt(6), VStr("")),
                  DictGet(data, VInt(7), VStr("")),
                  DictGet(data, VInt(8), VBool(FALSE)),
                  _parse_datetime(DictGet(data, VInt(9), VNone)),
                  _parse_datetime(DictGet(data, VInt(10), VNone)),
                  DictGet(data, VInt(11), VFloat(0)),
                  DictGet(data, VInt(12), VBool(FALSE)),
                  MapIter(EventEntry_from_msgpack, DictGet(data, VInt(13), VList(<<>>))),
                  MapIter(CarPosition_from_msgpack, DictGet(data, VInt(14), VList(<<>>))),
                  Flags(DictGet(data, VInt(15), VInt(0))),
                  MapIter(FlagDuration_from_msgpack, DictGet(data, VInt(16), VList(<<>>))),
                  DictGet(data, VInt(17), VNone),
                  DictGet(data, VInt(18), VNone),
                  DictGet(data, VInt(19), VNone),
                  DictGet(data, VInt(20), VNone),
                  DictGet(data, VInt(21), VNone),
                  DictGet(data, VInt(22), VNone),
                  DictGet(data, VInt(23), VNone),
                  DictGet(data, VInt(24), VNone),
                  MapIter(Section_from_msgpack, DictGet(data, VInt(25), VList(<<>>))),
                  DictGet(data, VInt(26), VDict(<<>>)),
                  MapIter(Announcement_from_msgpack, DictGet(data, VInt(27), VList(<<>>))),
                  _parse_datetime(DictGet(data, VInt(28), VNone))>>
    IN IF data.t # "dict" THEN Raise("AttributeError") ELSE
       IF AnyRaise(args) THEN FirstRaise(args) ELSE SessionState_init(args)


(***************************************************************************)
(* The wire index of every attribute ("# Key n" in each __init__): the      *)
(* n-th name is the attribute of wire index n - 1.                         *)
(***************************************************************************)
VideoDestination_attrs ==
    <<"type",
      "url",
      "host_name",
      "port",
      "parameters">>

VideoStatus_attrs ==
    <<"video_system_type",
      "video_destination">>

CompletedSection_attrs ==
    <<"number",
      "section_id",
      "elapsed_time_ms",
      "last_section_time_ms",
      "last_lap">>

EventEntry_attrs ==
    <<"number",
      "name",
      "team",
      "class_name">>

CarPosition_attrs ==
    <<"event_id",
      "session_id",
      "number",
      "transponder_id",
      "car_class",
      "best_time",
      "best_lap",
      "is_best_time",
      "is_best_time_class",
      "in_class_gap",
      "in_class_difference",
      "overall_gap",
      "overall_difference",
      "total_time",
      "last_lap_time",
      "last_lap_completed",
      "pit_stop_count",
      "last_lap_pitted",
      "laps_led_overall",
      "laps_led_in_class",
      "overall_position",
      "class_position",
      "overall_starting_position",
      "overall_positions_gained",
      "in_class_starting_position",
      "in_class_positions_gained",
      "is_overall_most_positions_gained",
      "is_class_most_positions_gained",
      "penalty_laps",
      "penalty_warnings",
      "black_flags",
      "is_entered_pit",
      "is_pit_start_finish",
      "is_exited_pit",
      "is_in_pit",
      "lap_included_pit",
      "last_loop_name",
      "is_stale",
      "track_flag",
      "local_flag",
      "lap_had_local_flag",
      "completed_sections",
      "projected_lap_time_ms",
      "lap_start_time",
      "driver_name",
      "driver_id",
      "in_car_video",
      "latitude",
      "longitude",
      "current_status",
      "impact_warning">>

FlagDuration_attrs ==
    <<"flag",
      "start_time",
      "end_time">>

Section_attrs ==
    <<"name",
      "length_inches",
      "start_label",
      "end_label">>

Announcement_attrs ==
    <<"timestamp",
      "priority",
      "text">>

SessionState_attrs ==
    <<"event_id",
      "event_name",
      "session_id",
      "session_name",
      "laps_to_go",
      "time_to_go",
      "local_time_of_day",
      "running_race_time",
      "is_practice_qualifying",
      "session_start_time",
      "session_end_time",
      "local_time_zone_offset",
      "is_live",
      "event_entries",
      "car_positions",
      "current_flag",
      "flag_durations",
      "green_time_ms",
      "green_laps",
      "yellow_time_ms",
      "yellow_laps",
      "number_of_yellows",
      "red_time_ms",
      "average_race_speed",
      "lead_changes",
      "sections",
      "class_colors",
      "announcements",
      "last_updated">>

Attrs(cls) ==
    CASE cls = "VideoDestination" -> VideoDestination_attrs
      [] cls = "VideoStatus" -> VideoStatus_attrs
      [] cls = "CompletedSection" -> CompletedSection_attrs
      [] cls = "EventEntry" -> EventEntry_attrs
      [] cls = "CarPosition" -> CarPosition_attrs
      [] cls = "FlagDuration" -> FlagDuration_attrs
      [] cls = "Section" -> Section_attrs
      [] cls = "Announcement" -> Announcement_attrs
      [] cls = "SessionState" -> SessionState_attrs

\* The attribute of obj that has wire index i
Field(obj, i) == obj[Attrs(obj.t)[i + 1]]

\* field_count of the class
FieldCount(cls) == Len(Attrs(cls))

(***************************************************************************)
(* The objects the model encodes: every class built by its constructor     *)
(* from its default arguments or from a populated sample, with any one     *)
(* argument replaced by any value of its annotated type.                   *)
(***************************************************************************)
MaxList == 2

StrVals == {VStr(""), VStr("60"), VStr("ab")}
OptStrVals == StrVals \cup {VNone}
IntVals == {VInt(0), VInt(3), VInt(INVALID_POSITION)}
OptIntVals == IntVals \cup {VNone}
BoolVals == {VBool(FALSE), VBool(TRUE)}
OptBoolVals == BoolVals \cup {VNone}
FloatVals == {VFloat(0), VFloat(-55)}
OptFloatVals == FloatVals \cup {VNone}
FlagsVals == {Flags(VInt(n)) : n \in {0, 1, FlagsMax}}
VideoSystemTypeVals == {VideoSystemType(VInt(n)) : n \in {0, 2, VideoSystemTypeMax}}
VideoDestinationTypeVals == {VideoDestinationType(VInt(n)) : n \in {0, 1, VideoDestinationTypeMax}}
SampleTime == VTime(23, 59, 30, 250000)
SampleDatetime == VDatetime(2025, 12, 5, 23, 59, 30, 250000)
OptTimeVals == {VNone, SampleTime, VTime(0, 0, 0, 0), VTime(0, 59, 0, 123456)}
OptDatetimeVals == {VNone, SampleDatetime, VDatetime(2025, 1, 5, 0, 0, 0, 0),
                    VDatetime(2025, 1, 5, 23, 0, 30, 0)}
SampleColors == VDict(<< <<VStr("ab"), VStr("60")>> >>)
OptColorDicts == {VNone, VDict(<<>>), SampleColors}

\* None and the lists of at most MaxList objects of S
OptLists(S) == {VNone} \cup {VList(l) : l \in UNION {[1..n -> S] : n \in 0..MaxList}}

\* base, and base with one argument replaced by a value of its type
ArgVariants(base, vals) ==
    {base} \cup UNION {{[base EXCEPT ![k] = v] : v \in vals[k]} : k \in 1..Len(base)}

\* VideoDestination.__init__: the values of the model for each parameter, by its annotation
VideoDestination_argvals ==
    <<VideoDestinationTypeVals,
      StrVals,
      StrVals,
      IntVals,
      StrVals>>

\* VideoDestination.__init__: arguments of a populated VideoDestination
VideoDestination_sample ==
    <<VideoDestinationType(VInt(1)),
      VStr("ab"),
      VStr("ab"),
      VInt(3),
      VStr("ab")>>

VideoDestination_pair == {VideoDestination_init(VideoDestination_defaults), VideoDestination_init(VideoDestination_sample)}

\* The VideoDestination objects of the model: VideoDestination(*args)
VideoDestination_objects ==
    {VideoDestination_init(a) : a \in ArgVariants(VideoDestination_defaults, VideoDestination_argvals)
                              \cup ArgVariants(VideoDestination_sample, VideoDestination_argvals)}

\* VideoStatus.__init__: the values of the model for each parameter, by its annotation
VideoStatus_argvals ==
    <<VideoSystemTypeVals,
      ({VNone} \cup VideoDestination_pair)>>

\* VideoStatus.__init__: arguments of a populated VideoStatus
VideoStatus_sample ==
    <<VideoSystemType(VInt(2)),
      VideoDestination_init(VideoDestination_sample)>>

VideoStatus_pair == {VideoStatus_init(VideoStatus_defaults), VideoStatus_init(VideoStatus_sample)}

\* The VideoStatus objects of the model: VideoStatus(*args)
VideoStatus_objects ==
    {VideoStatus_init(a) : a \in ArgVariants(VideoStatus_defaults, VideoStatus_argvals)
                              \cup ArgVariants(VideoStatus_sample, VideoStatus_argvals)}

\* CompletedSection.__init__: the values of the model for each parameter, by its annotation
CompletedSection_argvals ==
    <<StrVals,
      StrVals,
      IntVals,
      IntVals,
      IntVals>>

\* CompletedSection.__init__: arguments of a populated CompletedSection
CompletedSection_sample ==
    <<VStr("60"),
      VStr("ab"),
      VInt(3),
      VInt(3),
      VInt(3)>>

CompletedSection_pair == {CompletedSection_init(CompletedSection_defaults), CompletedSection_init(CompletedSection_sample)}

\* The CompletedSection objects of the model: CompletedSection(*args)
CompletedSection_objects ==
    {CompletedSection_init(a) : a \in ArgVariants(CompletedSection_defaults, CompletedSection_argvals)
                              \cup ArgVariants(CompletedSection_sample, CompletedSection_argvals)}

\* EventEntry.__init__: the values of the model for each parameter, by its annotation
EventEntry_argvals ==
    <<StrVals,
      StrVals,
      StrVals,
      StrVals>>

\* EventEntry.__init__: arguments of a populated EventEntry
EventEntry_sample ==
    <<VStr("60"),
      VStr("ab"),
      VStr("ab"),
      VStr("ab")>>

EventEntry_pair == {EventEntry_init(EventEntry_defaults), EventEntry_init(EventEntry_sample)}

\* The EventEntry objects of the model: EventEntry(*args)
EventEntry_objects ==
    {EventEntry_init(a) : a \in ArgVariants(EventEntry_defaults, EventEntry_argvals)
                              \cup ArgVariants(EventEntry_sample, EventEntry_argvals)}

\* CarPosition.__init__: the values of the model for each parameter, by its annotation
CarPosition_argvals ==
    <<OptStrVals,
      OptStrVals,
      OptStrVals,
      IntVals,
      OptStrVals,
      OptStrVals,
      IntVals,
      BoolVals,
      BoolVals,
      OptStrVals,
      OptStrVals,
      OptStrVals,
      OptStrVals,
      OptStrVals,
      OptStrVals,
      IntVals,
      OptIntVals,
      OptIntVals,
      OptIntVals,
      OptIntVals,
      IntVals,
      IntVals,
      IntVals,
      IntVals,
      IntVals,
      IntVals,
      BoolVals,
      BoolVals,
      IntVals,
      IntVals,
      IntVals,
      BoolVals,
      BoolVals,
      BoolVals,
      BoolVals,
      BoolVals,
      StrVals,
      BoolVals,
      FlagsVals,
      FlagsVals,
      OptBoolVals,
      OptLists(CompletedSection_pair),
      IntVals,
      OptTimeVals,
      StrVals,
      StrVals,
      ({VNone} \cup VideoStatus_pair),
      OptFloatVals,
      OptFloatVals,
      StrVals,
      BoolVals>>

\* CarPosition.__init__: arguments of a populated CarPosition
CarPosition_sample ==
    <<VStr("ab"),
      VStr("ab"),
      VStr("60"),
      VInt(3),
      VStr("ab"),
      VStr("ab"),
      VInt(3),
      VBool(TRUE),
      VBool(TRUE),
      VStr("ab"),
      VStr("ab"),
      VStr("ab"),
      VStr("ab"),
      VStr("ab"),
      VStr("ab"),
      VInt(3),
      VInt(3),
      VInt(3),
      VInt(3),
      VInt(3),
      VInt(3),
      VInt(3),
      VInt(3),
      VInt(3),
      VInt(3),
      VInt(3),
      VBool(TRUE),
      VBool(TRUE),
      VInt(3),
      VInt(3),
      VInt(3),
      VBool(TRUE),
      VBool(TRUE),
      VBool(TRUE),
      VBool(TRUE),
      VBool(TRUE),
      VStr("ab"),
      VBool(TRUE),
      Flags_GREEN,
      Flags_GREEN,
      VBool(TRUE),
      VList(<<CompletedSection_init(CompletedSection_sample)>>),
      VInt(3),
      SampleTime,
      VStr("ab"),
      VStr("ab"),
      VideoStatus_init(VideoStatus_sample),
      VFloat(-55),
      VFloat(-55),
      VStr("ab"),
      VBool(TRUE)>>

CarPosition_pair == {CarPosition_init(CarPosition_defaults), CarPosition_init(CarPosition_sample)}

\* The CarPosition objects of the model: CarPosition(*args)
CarPosition_objects ==
    {CarPosition_init(a) : a \in ArgVariants(CarPosition_defaults, CarPosition_argvals)
                              \cup ArgVariants(CarPosition_sample, CarPosition_argvals)}

\* FlagDuration.__init__: the values of the model for each parameter, by its annotation
FlagDuration_argvals ==
    <<FlagsVals,
      OptDatetimeVals,
      OptDatetimeVals>>

\* FlagDuration.__init__: arguments of a populated FlagDuration
FlagDuration_sample ==
    <<Flags_GREEN,
      SampleDatetime,
      SampleDatetime>>

FlagDuration_pair == {FlagDuration_init(FlagDuration_defaults), FlagDuration_init(FlagDuration_sample)}

\* The FlagDuration objects of the model: FlagDuration(*args)
FlagDuration_objects ==
    {FlagDuration_init(a) : a \in ArgVariants(FlagDuration_defaults, FlagDuration_argvals)
                              \cup ArgVariants(FlagDuration_sample, FlagDuration_argvals)}

\* Section.__init__: the values of the model for each parameter, by its annotation
Section_argvals ==
    <<StrVals,
      IntVals,
      StrVals,
      StrVals>>

\* Section.__init__: arguments of a populated Section
Section_sample ==
    <<VStr("ab"),
      VInt(3),
      VStr("ab"),
      VStr("ab")>>

Section_pair == {Section_init(Section_defaults), Section_init(Section_sample)}

\* The Section objects of the model: Section(*args)
Section_objects ==
    {Section_init(a) : a \in ArgVariants(Section_defaults, Section_argvals)
                              \cup ArgVariants(Section_sample, Section_argvals)}

\* Announcement.__init__: the values of the model for each parameter, by its annotation
Announcement_argvals ==
    <<OptDatetimeVals,
      StrVals,
      StrVals>>

\* Announcement.__init__: arguments of a populated Announcement
Announcement_sample ==
    <<SampleDatetime,
      VStr("ab"),
      VStr("ab")>>

Announcement_pair == {Announcement_init(Announcement_defaults), Announcement_init(Announcement_sample)}

\* The Announcement objects of the model: Announcement(*args)
Announcement_objects ==
    {Announcement_init(a) : a \in ArgVariants(Announcement_defaults, Announcement_argvals)
                              \cup ArgVariants(Announcement_sample, Announcement_argvals)}

\* SessionState.__init__: the values of the model for each parameter, by its annotation
SessionState_argvals ==
    <<IntVals,
      StrVals,
      IntVals,
      StrVals,
      IntVals,
      StrVals,
      StrVals,
      StrVals,
      BoolVals,
      OptDatetimeVals,
      OptDatetimeVals,
      FloatVals,
      BoolVals,
      OptLists(EventEntry_pair),
      OptLists(CarPosition_pair),
      FlagsVals,
      OptLists(FlagDuration_pair),
      OptIntVals,
      OptIntVals,
      OptIntVals,
      OptIntVals,
      OptIntVals,
      OptIntVals,
      OptStrVals,
      OptIntVals,
      OptLists(Section_pair),
      OptColorDicts,
      OptLists(Announcement_pair),
      OptDatetimeVals>>

\* SessionState.__init__: arguments of a populated SessionState
SessionState_sample ==
    <<VInt(3),
      VStr("ab"),
      VInt(3),
      VStr("ab"),
      VInt(3),
      VStr("ab"),
      VStr("ab"),
      VStr("ab"),
      VBool(TRUE),
      SampleDatetime,
      SampleDatetime,
      VFloat(-55),
      VBool(TRUE),
      VList(<<EventEntry_init(EventEntry_sample)>>),
      VList(<<CarPosition_init(CarPosition_sample)>>),
      Flags_GREEN,
      VList(<<FlagDuration_init(FlagDuration_sample)>>),
      VInt(3),
      VInt(3),
      VInt(3),
      VInt(3),
      VInt(3),
      VInt(3),
      VStr("ab"),
      VInt(3),
      VList(<<Section_init(Section_sample)>>),
      SampleColors,
      VList(<<Announcement_init(Announcement_sample)>>),
      SampleDatetime>>

SessionState_pair == {SessionState_init(SessionState_defaults), SessionState_init(SessionState_sample)}

\* The SessionState objects of the model: SessionState(*args)
SessionState_objects ==
    {SessionState_init(a) : a \in ArgVariants(SessionState_defaults, SessionState_argvals)
                              \cup ArgVariants(SessionState_sample, SessionState_argvals)}


(***************************************************************************)
(* main.py: the snapshot fetch                                             *)
(***************************************************************************)
\* {i: v for i, v in enumerate(data)}
Enumerated(data) == VDict([k \in 1..Len(data.l) |-> <<VInt(k - 1), data.l[k]>>])

\* sorted(xs, key=...) succeeds: the keys are comparable with one another
Sortable(keys) ==
    \/ Len(keys) <= 1
    \/ \A k \in 1..Len(keys) : keys[k].t \in {"int", "bool", "float"} \cup IntEnums
    \/ \A k \in 1..Len(keys) : keys[k].t = "str"

\* A fetch without the except clauses: the exception of the decoder or of the
\* report is what the caller gets
Reported_propagating(state) ==
    IF Raised(state) THEN state
    ELSE IF ~Sortable([k \in 1..Len(state.car_positions.l) |->
                         state.car_positions.l[k].overall_position])
    THEN Raise("TypeError")
    ELSE state

\* The lines after the decoding (main.py 343-358): the state is printed, the
\* cars in the order of sorted(); an exception there, as one of the decoder,
\* ends in "return None"
Reported(state) ==
    IF Raised(state) THEN VNone
    ELSE IF ~Sortable([k \in 1..Len(state.car_positions.l) |->
                         state.car_positions.l[k].overall_position])
    THEN VNone
    ELSE state

\* The fetch without the conversion of an array to a map: a list is refused
get_current_session_state_dict_only(resp) ==
    IF resp.outcome # "ok" THEN VNone
    ELSE IF Raised(resp.raw) THEN VNone
    ELSE IF resp.raw.t # "dict" THEN VNone
    ELSE Reported(SessionState_from_msgpack_dict(resp.raw))

\* get_current_session_state(token, event_id), for the response resp of the
\* server: [outcome |-> "ok" | "http_error" | "no_connection", raw |-> what
\* msgpack.unpackb makes of the body (a value, or the exception it raises)]
get_current_session_state(resp) ==
    IF resp.outcome # "ok" THEN VNone
    ELSE IF Raised(resp.raw) THEN VNone
    ELSE IF resp.raw.t = "dict" THEN Reported(SessionState_from_msgpack_dict(resp.raw))
    ELSE IF resp.raw.t = "list"
    THEN Reported(SessionState_from_msgpack_dict(Enumerated(resp.raw)))
    ELSE VNone

(***************************************************************************)
(* The codec as a process: an object is encoded, the payload may lose its  *)
(* tail (an older sender), lose keys or carry nulls (a sparse payload),    *)
(* and is decoded.                                                         *)
(***************************************************************************)
Objects ==
    VideoDestination_objects \cup VideoStatus_objects \cup CompletedSection_objects
      \cup EventEntry_objects \cup CarPosition_objects \cup FlagDuration_objects
      \cup Section_objects \cup Announcement_objects \cup SessionState_objects

\* obj.to_msgpack(), or obj.to_msgpack_dict() for a SessionState
Encoded(obj) ==
    CASE obj.t = "VideoDestination" -> VideoDestination_to_msgpack(obj)
      [] obj.t = "VideoStatus" -> VideoStatus_to_msgpack(obj)
      [] obj.t = "CompletedSection" -> CompletedSection_to_msgpack(obj)
      [] obj.t = "EventEntry" -> EventEntry_to_msgpack(obj)
      [] obj.t = "CarPosition" -> CarPosition_to_msgpack(obj)
      [] obj.t = "FlagDuration" -> FlagDuration_to_msgpack(obj)
      [] obj.t = "Section" -> Section_to_msgpack(obj)
      [] obj.t = "Announcement" -> Announcement_to_msgpack(obj)
      [] obj.t = "SessionState" -> SessionState_to_msgpack_dict(obj)

\* cls.from_msgpack(data), or SessionState.from_msgpack_dict(data)
Decoded(cls, data) ==
    CASE cls = "VideoDestination" -> VideoDestination_from_msgpack(data)
      [] cls = "VideoStatus" -> VideoStatus_from_msgpack(data)
      [] cls = "CompletedSection" -> CompletedSection_from_msgpack(data)
      [] cls = "EventEntry" -> EventEntry_from_msgpack(data)
      [] cls = "CarPosition" -> CarPosition_from_msgpack(data)
      [] cls = "FlagDuration" -> FlagDuration_from_msgpack(data)
      [] cls = "Section" -> Section_from_msgpack(data)
      [] cls = "Announcement" -> Announcement_from_msgpack(data)
      [] cls = "SessionState" -> SessionState_from_msgpack_dict(data)

\* cls()
New(cls) ==
    CASE cls = "VideoDestination" -> VideoDestination_new
      [] cls = "VideoStatus" -> VideoStatus_new
      [] cls = "CompletedSection" -> CompletedSection_new
      [] cls = "EventEntry" -> EventEntry_new
      [] cls = "CarPosition" -> CarPosition_new
      [] cls = "FlagDuration" -> FlagDuration_new
      [] cls = "Section" -> Section_new
      [] cls = "Announcement" -> Announcement_new
      [] cls = "SessionState" -> SessionState_new

\* The class the payload is decoded as
WireClass == IF ent = VNone THEN "SessionState" ELSE ent.t

\* The wire indices of the payload
WireIndices(w) ==
    IF w.t = "list" THEN 0..(Len(w.l) - 1)
    ELSE {w.d[n][1].i : n \in 1..Len(w.d)}

\* The payload without the keys of S (a dict) 
WithoutKeys(w, S) ==
    LET keep == {n \in 1..Len(w.d) : w.d[n][1].i \notin S}
        RECURSIVE Pick(_)
        Pick(n) == IF n > Len(w.d) THEN <<>>
                   ELSE (IF n \in keep THEN <<w.d[n]>> ELSE <<>>) \o Pick(n + 1)
    IN VDict(Pick(1))

\* The payload with v at the indices of S
WithAt(w, S, v) ==
    IF w.t = "list"
    THEN VList([n \in 1..Len(w.l) |-> IF (n - 1) \in S THEN v ELSE w.l[n]])
    ELSE VDict([n \in 1..Len(w.d) |->
                  IF w.d[n][1].i \in S THEN <<w.d[n][1], v>> ELSE w.d[n]])

MaxDrop == 1

RECURSIVE SubsetsUpTo(_, _)
\* The subsets of K of at most n elements
SubsetsUpTo(K, n) ==
    IF n = 0 THEN {{}}
    ELSE LET P == SubsetsUpTo(K, n - 1) IN P \cup {S \cup {i} : S \in P, i \in K}

\* What the example of a sparse snapshot carries: event_id, event_name, current_flag
ScenarioPayload ==
    VDict(<< <<VInt(0), VInt(2)>>, <<VInt(1), VStr("Test Race")>>, <<VInt(15), VInt(1)>> >>)

\* The processes that a specification leaves out are at rest
FilterIdle == filter_arg = VNone /\ filter_out = VNone /\ refiltered = VNone
MainIdle == main_pc = 0 /\ steps = <<>>
NoSubscription == [attempted |-> FALSE, open |-> FALSE, raised |-> FALSE]
\* Before _on_open was ever called
NotSeen == [calls |-> 0, pc |-> "start"]

ClientIdle ==
    /\ conn = "none" /\ start_pc = "idle" /\ opens = 0 /\ seen = NotSeen
    /\ subscription = NoSubscription
HeapIdle ==
    /\ heap = <<>> /\ h_pc = "idle" /\ h_state = VNone /\ h_again = VNone
    /\ h_orig = VNone /\ h_first = VNone
CodecIdle == ent = VNone /\ wire = VNone /\ dec = VNone /\ stage = "idle" /\ mut = [op |-> "none", idx |-> {}]
HubIdle == pc = "start" /\ session_state = VNone /\ calls = <<>>

NoMut == [op |-> "none", idx |-> {}]

Init ==
    /\ \/ /\ ent \in Objects
          /\ wire = VNone
          /\ stage = "new"
          /\ mut = NoMut
       \/ /\ ent = VNone
          /\ wire = ScenarioPayload
          /\ stage = "wire"
          /\ mut = [op |-> "sent", idx |-> {}]
    /\ dec = VNone
    /\ pc = "start"
    /\ session_state = VNone
    /\ calls = <<>>
    /\ FilterIdle /\ MainIdle /\ ClientIdle /\ HeapIdle

\* to_msgpack / to_msgpack_dict
Encode ==
    /\ stage = "new"
    /\ wire' = Encoded(ent)
    /\ stage' = "wire"
    /\ UNCHANGED <<ent, dec, mut>>
    /\ UNCHANGED <<hubVars, filterVars, mainVars, clientVars, heapVars>>

\* The array arrives truncated to length k
Truncate(k) ==
    /\ stage = "wire" /\ mut = NoMut /\ wire.t = "list"
    /\ k < Len(wire.l)
    /\ wire' = VList(SubSeq(wire.l, 1, k))
    /\ mut' = [op |-> "cut", idx |-> k..(Len(wire.l) - 1)]
    /\ UNCHANGED <<ent, dec, stage>>
    /\ UNCHANGED <<hubVars, filterVars, mainVars, clientVars, heapVars>>

\* The default object and the sample object of every class
PairObjects ==
    VideoDestination_pair \cup VideoStatus_pair \cup CompletedSection_pair
      \cup EventEntry_pair \cup CarPosition_pair \cup FlagDuration_pair
      \cup Section_pair \cup Announcement_pair \cup SessionState_pair

\* The map arrives without the keys of S
\* Sets of more than one index are tried on the payloads of the default and
\* of the sample SessionState
ManyIndices(S) == Cardinality(S) <= 1 \/ ent \in SessionState_pair

Drop(S) ==
    /\ stage = "wire" /\ mut = NoMut /\ wire.t = "dict"
    /\ S # {}
    /\ ManyIndices(S)
    /\ wire' = WithoutKeys(wire, S)
    /\ mut' = [op |-> "drop", idx |-> S]
    /\ UNCHANGED <<ent, dec, stage>>
    /\ UNCHANGED <<hubVars, filterVars, mainVars, clientVars, heapVars>>

\* The map arrives with the keys of S only
Keep(S) ==
    /\ stage = "wire" /\ mut = NoMut /\ wire.t = "dict"
    /\ ManyIndices(S)
    /\ wire' = WithoutKeys(wire, WireIndices(wire) \ S)
    /\ mut' = [op |-> "drop", idx |-> WireIndices(wire) \ S]
    /\ UNCHANGED <<ent, dec, stage>>
    /\ UNCHANGED <<hubVars, filterVars, mainVars, clientVars, heapVars>>

\* The payload arrives with null at the indices of S
Nullify(S) ==
    /\ stage = "wire" /\ mut = NoMut /\ wire.t \in {"list", "dict"}
    /\ S # {}
    /\ wire' = WithAt(wire, S, VNone)
    /\ mut' = [op |-> "null", idx |-> S]
    /\ UNCHANGED <<ent, dec, stage>>
    /\ UNCHANGED <<hubVars, filterVars, mainVars, clientVars, heapVars>>

\* The wire indices of the enum fields of a class, with the last member's value
EnumFields(cls) ==
    CASE cls = "VideoDestination" -> {<<0, VideoDestinationTypeMax>>}
      [] cls = "VideoStatus" -> {<<0, VideoSystemTypeMax>>}
      [] cls = "CarPosition" -> {<<38, FlagsMax>>, <<39, FlagsMax>>}
      [] cls = "FlagDuration" -> {<<0, FlagsMax>>}
      [] cls = "SessionState" -> {<<15, FlagsMax>>}
      [] OTHER -> {}

\* Integers that are the value of no member of an enum with members 0..max
OutOfRange(max) == {VInt(max + 1), VInt(-1), VInt(35)}

\* The payload arrives with an integer that is no member's at an enum index
BadEnum(f, v) ==
    /\ stage = "wire" /\ mut = NoMut /\ wire.t \in {"list", "dict"}
    /\ f \in EnumFields(WireClass)
    /\ v \in OutOfRange(f[2])
    /\ wire' = WithAt(wire, {f[1]}, v)
    /\ mut' = [op |-> "enum", idx |-> {f[1]}]
    /\ UNCHANGED <<ent, dec, stage>>
    /\ UNCHANGED <<hubVars, filterVars, mainVars, clientVars, heapVars>>

\* The snapshot arrives with such an integer as the track_flag (index 38) of
\* its car k
BadCarFlag(k, v) ==
    /\ stage = "wire" /\ mut = NoMut /\ wire.t = "dict"
    /\ LET cars == DictLookup(wire, VInt(14))
       IN /\ k \in 1..Len(cars.l)
          /\ wire' = WithAt(wire, {14},
                            VList([cars.l EXCEPT ![k] = WithAt(cars.l[k], {38}, v)]))
    /\ mut' = [op |-> "carflag", idx |-> {k}]
    /\ UNCHANGED <<ent, dec, stage>>
    /\ UNCHANGED <<hubVars, filterVars, mainVars, clientVars, heapVars>>

\* Values that are not an array: text, numbers, null, maps
ShapeVals ==
    {VStr("ab"), VStr(""), VInt(3), VNone, VBool(TRUE), VDict(<<>>),
     VDict(<< <<VInt(2), VStr("60")>> >>), VDict(<< <<VStr("ab"), VInt(3)>> >>)}

\* The wire indices of the sequence fields of a class
SequenceFields(cls) ==
    CASE cls = "SessionState" -> {13, 14, 16, 25, 27}
      [] cls = "CarPosition" -> {41}
      [] OTHER -> {}

\* A value that is not an array arrives where the array of a record is expected
Misshape(v) ==
    /\ stage = "wire" /\ mut = NoMut /\ wire.t = "list"
    /\ ent \in PairObjects
    /\ wire' = v
    /\ mut' = [op |-> "shape", idx |-> {}]
    /\ UNCHANGED <<ent, dec, stage>>
    /\ UNCHANGED <<hubVars, filterVars, mainVars, clientVars, heapVars>>

\* A value that is not a list arrives at the index i of a sequence field
BadSequence(i, v) ==
    /\ stage = "wire" /\ mut = NoMut /\ wire.t \in {"list", "dict"}
    /\ ent \in PairObjects
    /\ i \in SequenceFields(WireClass)
    /\ wire' = WithAt(wire, {i}, v)
    /\ mut' = [op |-> "seq", idx |-> {i}]
    /\ UNCHANGED <<ent, dec, stage>>
    /\ UNCHANGED <<hubVars, filterVars, mainVars, clientVars, heapVars>>

MaxExtra == 2

\* What a later version of the schema may carry at a new index
ExtraVals == {VNone, VInt(3), VStr("ab"), VList(<<>>)}

\* The payload arrives with n values of indices the class does not know
Extend(n, v) ==
    /\ stage = "wire" /\ wire.t \in {"list", "dict"}
    /\ ent \in PairObjects
    /\ mut = NoMut \/ mut = [op |-> "map", idx |-> {}]
    /\ LET N == FieldCount(WireClass)
       IN /\ wire' = IF wire.t = "list"
                     THEN VList(wire.l \o [k \in 1..n |-> v])
                     ELSE VDict(wire.d \o [k \in 1..n |-> <<VInt(N + k - 1), v>>])
          /\ mut' = [op |-> "extra", idx |-> N..(N + n - 1)]
    /\ UNCHANGED <<ent, dec, stage>>
    /\ UNCHANGED <<hubVars, filterVars, mainVars, clientVars, heapVars>>

\* The array arrives as a map from position to value, without the positions
\* of S
AsMap(S) ==
    /\ stage = "wire" /\ mut = NoMut /\ wire.t = "list"
    /\ S \subseteq WireIndices(wire)
    /\ S = {} \/ ent \in PairObjects
    /\ wire' = WithoutKeys(Enumerated(wire), S)
    /\ mut' = [op |-> "map", idx |-> S]
    /\ UNCHANGED <<ent, dec, stage>>
    /\ UNCHANGED <<hubVars, filterVars, mainVars, clientVars, heapVars>>

\* The map arrives as the array of its values
AsArray ==
    /\ stage = "wire" /\ mut = NoMut /\ wire.t = "dict"
    /\ wire' = VList([n \in 1..Len(wire.d) |-> DictLookup(wire, VInt(n - 1))])
    /\ mut' = [op |-> "array", idx |-> {}]
    /\ UNCHANGED <<ent, dec, stage>>
    /\ UNCHANGED <<hubVars, filterVars, mainVars, clientVars, heapVars>>

\* The payload is the body of the response to the snapshot request
Fetch ==
    /\ stage = "wire" /\ WireClass = "SessionState"
    /\ dec' = get_current_session_state([outcome |-> "ok", raw |-> wire])
    /\ stage' = "fetched"
    /\ UNCHANGED <<ent, wire, mut>>
    /\ UNCHANGED <<hubVars, filterVars, mainVars, clientVars, heapVars>>

\* from_msgpack / from_msgpack_dict
Decode ==
    /\ stage = "wire"
    /\ dec' = Decoded(WireClass, wire)
    /\ stage' = "decoded"
    /\ UNCHANGED <<ent, wire, mut>>
    /\ UNCHANGED <<hubVars, filterVars, mainVars, clientVars, heapVars>>

Next ==
    \/ Encode
    \/ \E k \in 0..50 : Truncate(k)
    \/ \E S \in SubsetsUpTo(0..28, MaxDrop) : Drop(S)
    \/ \E S \in SubsetsUpTo(0..28, MaxDrop) : Keep(S)
    \/ \E S \in {{i} : i \in 0..50} : Nullify(S \cap WireIndices(wire))
    \/ Nullify(WireIndices(wire))
    \/ \E S \in {{}} \cup {{i} : i \in 0..50} : AsMap(S)
    \/ AsArray
    \/ \E n \in 1..MaxExtra, v \in ExtraVals : Extend(n, v)
    \/ \E v \in ShapeVals : Misshape(v)
    \/ \E i \in SequenceFields(WireClass), v \in ShapeVals \ {VNone} : BadSequence(i, v)
    \/ \E f \in EnumFields(WireClass) : \E v \in OutOfRange(f[2]) : BadEnum(f, v)
    \/ \E k \in 1..(MaxList + 1), v \in OutOfRange(FlagsMax) : BadCarFlag(k, v)
    \/ Fetch
    \/ Decode

Spec == Init /\ [][Next]_vars

(***************************************************************************)
(* signalr_client.py: what the patch handlers print                        *)
(***************************************************************************)
RECURSIVE JoinStr(_, _)
\* sep.join(xs)
JoinStr(xs, sep) ==
    IF xs = <<>> THEN ""
    ELSE IF Len(xs) = 1 THEN xs[1]
    ELSE xs[1] \o sep \o JoinStr(Tail(xs), sep)

RECURSIVE PyRepr(_)
\* repr(v)
PyRepr(v) ==
    CASE v.t = "none" -> "None"
      [] v.t = "int" -> ToString(v.i)
      [] v.t = "bool" -> IF v.b THEN "True" ELSE "False"
      [] v.t = "str" -> "'" \o v.s \o "'"
      [] v.t = "float" ->
            (IF v.f < 0 THEN "-" ELSE "")
              \o ToString((IF v.f < 0 THEN -v.f ELSE v.f) \div 10) \o "."
              \o ToString((IF v.f < 0 THEN -v.f ELSE v.f) % 10)
      [] v.t = "list" ->
            "[" \o JoinStr([k \in 1..Len(v.l) |-> PyRepr(v.l[k])], ", ") \o "]"
      [] v.t = "dict" ->
            "{" \o JoinStr([k \in 1..Len(v.d) |->
                              PyRepr(v.d[k][1]) \o ": " \o PyRepr(v.d[k][2])], ", ")
                \o "}"

\* str(v)
PyStr(v) == IF v.t = "str" THEN v.s ELSE PyRepr(v)

\* A filter of the top level only: what the containers hold is kept as it is
_filter_none_values_shallow(obj) ==
    CASE obj.t = "dict" -> VDict(SelectSeq(obj.d, LAMBDA p : p[2] # VNone))
      [] obj.t = "list" -> VList(SelectSeq(obj.l, LAMBDA x : x # VNone))
      [] OTHER -> obj

RECURSIVE _filter_none_values(_)
_filter_none_values(obj) ==
    CASE obj.t = "dict" ->
            LET kept == SelectSeq(obj.d, LAMBDA p : p[2] # VNone)
            IN VDict([k \in 1..Len(kept) |->
                        <<kept[k][1], _filter_none_values(kept[k][2])>>])
      [] obj.t = "list" ->
            LET kept == SelectSeq(obj.l, LAMBDA x : x # VNone)
            IN VList([k \in 1..Len(kept) |-> _filter_none_values(kept[k])])
      [] OTHER -> obj

\* re.sub(r'(?<!^)(?=[A-Z])', '_', key).lower(), for the keys of the model
CamelToSnake(key) ==
    CASE key = "driverName" -> "driver_name"
      [] key = "overallPosition" -> "overall_position"
      [] key = "lapsToGo" -> "laps_to_go"
      [] key = "eventName" -> "event_name"
      [] key = "isLive" -> "is_live"
      [] key = "currentFlag" -> "current_flag"
      [] key = "carPositions" -> "car_positions"
      [] key = "classColors" -> "class_colors"
      [] key = "completedSections" -> "completed_sections"
      [] key = "inCarVideo" -> "in_car_video"
      [] OTHER -> key

\* The name a patch key is printed under
FieldName(key) ==
    IF key.t = "str" THEN CamelToSnake(key.s) ELSE "field_" \o PyStr(key)

\* Flags(n).name
FlagName(n) ==
    <<"UNKNOWN", "GREEN", "YELLOW", "RED", "WHITE", "CHECKERED", "BLACK", "PURPLE35">>[n + 1]

\* "<n> items", "<n> classes"
Items(n) == [t |-> "items", n |-> n]
Classes(n) == [t |-> "classes", n |-> n]

\* One printed change
Line(field, shown) == [field |-> field, shown |-> shown]

\* if value: an entry with a false value is skipped as if it were None
IsChange_truthy(value) == Truthy(value)

\* No test of the value: every entry is shown, None included
IsChange_always(value) == value = value

\* if value is not None: the entry is shown as a change
IsChange(value) == value # VNone

\* The list of keys without 'carPositions'
SessionListKeys_without_cars ==
    {VStr("eventEntries"), VStr("announcements"), VStr("sections"),
     VStr("flagDurations")}

SessionListKeys ==
    {VStr("carPositions"), VStr("eventEntries"), VStr("announcements"),
     VStr("sections"), VStr("flagDurations")}

\* The lines one entry of a session patch prints (each is one counted change)
SessionPatchLines(key, value) ==
    LET field_name == FieldName(key)
    IN IF ~IsChange(value) THEN <<>>
       ELSE IF field_name = "current_flag" \/ key = VStr("currentFlag")
       THEN LET flag == Flags(value)
            IN IF Raised(flag) THEN <<Line(field_name, value)>>
               ELSE <<Line(field_name, VStr(FlagName(flag.i)))>>
       ELSE IF key \in SessionListKeys
       THEN IF value.t = "list" THEN <<Line(field_name, Items(Len(value.l)))>>
            ELSE <<Line(field_name, value)>>
       ELSE IF key = VStr("classColors")
       THEN IF value.t = "dict" THEN <<Line(field_name, Classes(Len(value.d)))>>
            ELSE <<Line(field_name, value)>>
       ELSE IF value.t = "dict"
       THEN LET filtered_value == _filter_none_values(value)
            IN IF Truthy(filtered_value) THEN <<Line(field_name, filtered_value)>>
               ELSE <<>>
       ELSE <<Line(field_name, value)>>

RECURSIVE Concat(_)
\* The sequences of ss, one after the other
Concat(ss) == IF ss = <<>> THEN <<>> ELSE ss[1] \o Concat(Tail(ss))

\* What a handler printed: the changes, and "(No changes)" when there is none
Printed(kind, lines) == [kind |-> kind, lines |-> lines, no_changes |-> lines = <<>>]

\* _handle_session_patch(data): what it prints
session_patch_report(data) ==
    IF data.t \notin {"list", "dict"} THEN [kind |-> "unexpected"]
    ELSE LET items == IF data.t = "list" THEN Enumerated(data).d ELSE data.d
         IN Printed("session",
                    Concat([k \in 1..Len(items) |->
                              SessionPatchLines(items[k][1], items[k][2])]))

\* A search that knows the names only, not the indices 2 and 44
TopLevel_names_only(car_dict, name, index) ==
    LET pick(v) == IF v # VNone /\ v.t # "dict" THEN v ELSE VNone
    IN IF DictHas(car_dict, VStr(name)) THEN pick(DictLookup(car_dict, VStr(name)))
       ELSE VNone

\* The car number a car patch names at top level (None when it names none)
TopLevel(car_dict, name, index) ==
    LET pick(v) == IF v # VNone /\ v.t # "dict" THEN v ELSE VNone
    IN IF DictHas(car_dict, VStr(name)) THEN pick(DictLookup(car_dict, VStr(name)))
       ELSE IF DictHas(car_dict, VInt(index)) THEN pick(DictLookup(car_dict, VInt(index)))
       ELSE VNone

\* The first number or driverName found in a dict-valued integer key, in
\* ascending key order: <<car_number, driver_name>>
NestedIdentity(car_dict) ==
    LET intKeys == {car_dict.d[n][1].i : n \in {m \in 1..Len(car_dict.d) :
                                                   car_dict.d[m][1].t = "int"}}
        names(k) ==
            LET value == DictLookup(car_dict, VInt(k))
            IN IF value.t # "dict" THEN <<VNone, VNone>>
               ELSE IF DictHas(value, VStr("number"))
                       /\ DictLookup(value, VStr("number")) # VNone
               THEN <<DictLookup(value, VStr("number")), VNone>>
               ELSE IF DictHas(value, VStr("driverName"))
                       /\ DictLookup(value, VStr("driverName")) # VNone
               THEN <<VNone, DictLookup(value, VStr("driverName"))>>
               ELSE <<VNone, VNone>>
        hits == {k \in intKeys : names(k) # <<VNone, VNone>>}
    IN IF hits = {} THEN <<VNone, VNone>>
       ELSE names(CHOOSE k \in hits : \A j \in hits : k <= j)

MaxCarIdLen == 50

\* The identity with the driver name looked at before the car number
CarId_driver_first(car_dict) ==
    LET top == <<TopLevel(car_dict, "number", 2), TopLevel(car_dict, "driverName", 44)>>
        car_id == IF Truthy(top[2]) THEN "Driver: " \o PyStr(top[2])
                  ELSE IF Truthy(top[1]) THEN PyStr(top[1])
                  ELSE "Unknown"
    IN IF Len(car_id) > MaxCarIdLen THEN "Unknown" ELSE car_id

\* The identity a car patch is printed under
CarId(car_dict) ==
    LET top == <<TopLevel(car_dict, "number", 2), TopLevel(car_dict, "driverName", 44)>>
        found == IF ~Truthy(top[1]) /\ ~Truthy(top[2])
                 THEN LET nested == NestedIdentity(car_dict)
                      IN <<IF nested[1] # VNone THEN nested[1] ELSE top[1],
                           IF nested[2] # VNone THEN nested[2] ELSE top[2]>>
                 ELSE top
        car_id == IF Truthy(found[1]) THEN PyStr(found[1])
                  ELSE IF Truthy(found[2]) THEN "Driver: " \o PyStr(found[2])
                  ELSE "Unknown"
    IN IF Len(car_id) > MaxCarIdLen THEN "Unknown" ELSE car_id

CarListKeys == {VStr("completedSections"), VStr("inCarVideo")}

\* The lines of an entry without the filter: a map is printed as it is
CarPatchLines_unfiltered(key, value) ==
    LET field_name == FieldName(key)
    IN IF ~IsChange(value) THEN <<>>
       ELSE IF key \in CarListKeys /\ value.t = "list"
       THEN <<Line(field_name, Items(Len(value.l)))>>
       ELSE <<Line(field_name, value)>>

\* The lines one entry of a car patch prints (each is one counted change)
CarPatchLines(key, value) ==
    LET field_name == FieldName(key)
    IN IF ~IsChange(value) THEN <<>>
       ELSE IF key \in CarListKeys /\ value.t = "list"
       THEN <<Line(field_name, Items(Len(value.l)))>>
       ELSE IF value.t = "dict"
       THEN LET filtered_value == _filter_none_values(value)
            IN IF Truthy(filtered_value) THEN <<Line(field_name, filtered_value)>>
               ELSE <<>>
       ELSE <<Line(field_name, value)>>

\* What _handle_car_patches prints for one element of the batch
CarReport(car_data) ==
    IF car_data.t \notin {"list", "dict"} THEN [kind |-> "unexpected"]
    ELSE LET car_dict == IF car_data.t = "list" THEN Enumerated(car_data) ELSE car_data
             lines == Concat([k \in 1..Len(car_dict.d) |->
                                CarPatchLines(car_dict.d[k][1], car_dict.d[k][2])])
         IN [kind |-> "car", car_id |-> CarId(car_dict), lines |-> lines,
             no_changes |-> lines = <<>>]

\* A handler that returns at the first record it cannot read
car_patches_report_aborting(data) ==
    IF data.t # "list" THEN [kind |-> "unexpected"]
    ELSE LET bad == {k \in 1..Len(data.l) : data.l[k].t \notin {"list", "dict"}}
             last == IF bad = {} THEN Len(data.l)
                     ELSE CHOOSE k \in bad : \A j \in bad : k <= j
         IN [kind |-> "cars", cars |-> [k \in 1..last |-> CarReport(data.l[k])]]

\* _handle_car_patches(data): what it prints
car_patches_report(data) ==
    IF data.t # "list" THEN [kind |-> "unexpected"]
    ELSE [kind |-> "cars", cars |-> [k \in 1..Len(data.l) |-> CarReport(data.l[k])]]

(***************************************************************************)
(* The client: one snapshot fetch, then the patch handlers, called one at  *)
(* a time in the order the hub connection delivers the messages.           *)
(***************************************************************************)
MaxPatches == 2

\* A car as the server sends it: number "60", running third
Car60 == CarPosition_init(CarPosition_sample)
CarAb == CarPosition_init([CarPosition_defaults EXCEPT ![3] = VStr("ab"), ![21] = VInt(1)])
Car7 == CarPosition_init([CarPosition_defaults EXCEPT ![3] = VStr("7"), ![21] = VInt(2)])

\* The snapshot of a running session, with two cars
LiveSession ==
    SessionState_init([SessionState_sample EXCEPT ![15] = VList(<<Car60, CarAb>>)])

Responses ==
    {[outcome |-> "ok", raw |-> SessionState_to_msgpack_dict(LiveSession)],
     [outcome |-> "ok", raw |-> VList([k \in 1..29 |->
                                  SessionState_to_msgpack_dict(LiveSession).d[k][2]])],
     [outcome |-> "ok", raw |-> ScenarioPayload],
     [outcome |-> "ok", raw |-> SessionState_to_msgpack_dict(SessionState_new)],
     [outcome |-> "ok", raw |-> VDict(<< <<VInt(14), VList(<<VList(<<>>), VList(<<>>)>>)>>,
                                        <<VInt(4), VNone>> >>)],
     [outcome |-> "ok", raw |-> VDict(<< <<VInt(14),
            VList(<<CarPosition_to_msgpack(Car60),
                    VList([k \in 1..21 |-> VNone])>>)>> >>)],
     [outcome |-> "ok", raw |-> VStr("ab")],
     [outcome |-> "ok", raw |-> Raise("UnpackException")],
     [outcome |-> "http_error", raw |-> VNone],
     [outcome |-> "no_connection", raw |-> VNone]}

\* index: value
D1(k, v) == VDict(<< <<k, v>> >>)
D2(k, v, k2, v2) == VDict(<< <<k, v>>, <<k2, v2>> >>)

\* An array of n nulls with v at index i
Sparse(n, i, v) == VList([k \in 1..n |-> IF k = i + 1 THEN v ELSE VNone])

\* The ReceiveSessionPatch messages of the model
SessionPatches ==
    {D1(VInt(4), VInt(0)), D1(VInt(1), VStr("")), D1(VInt(12), VBool(FALSE)),
     D1(VStr("lapsToGo"), VInt(0)), D1(VStr("eventName"), VStr("")),
     D2(VInt(4), VNone, VInt(1), VStr("ab")),
     Sparse(29, 4, VInt(5)),
     Sparse(29, 15, VInt(0)),
     D1(VInt(14), VList(<<CarPosition_to_msgpack(Car7)>>)),
     D1(VStr("carPositions"), VList(<<CarPosition_to_msgpack(Car7)>>)),
     D1(VStr("carPositions"), VNone),
     D1(VStr("currentFlag"), VInt(2)), D1(VInt(15), VInt(9)),
     D1(VStr("currentFlag"), VInt(0)),
     D1(VStr("currentFlag"), VInt(9)),
     D1(VStr("classColors"), SampleColors), D1(VInt(26), VDict(<<>>)),
     D1(VStr("classColors"), VDict(<<>>)),
     D1(VInt(26), D1(VStr("ab"), VNone)),
     VDict(<<>>), VInt(3), VNone}

\* A car number of 51 characters
LongNumber == "123456789012345678901234567890123456789012345678901"

\* The ReceiveCarPatches messages of the model
CarPatchBatches ==
    {VList(<<D1(VInt(20), VInt(5))>>),
     VList(<<Sparse(51, 20, VInt(5))>>),
     VList(<<D2(VInt(2), VStr("60"), VInt(20), VInt(5))>>),
     VList(<<D2(VStr("number"), VStr("60"), VStr("overallPosition"), VInt(0))>>),
     VList(<<D2(VInt(2), VStr("7"), VInt(20), VInt(1))>>),
     VList(<<D2(VInt(44), VStr("ab"), VInt(34), VBool(FALSE))>>),
     VList(<<D2(VInt(2), VStr(""), VInt(20), VInt(5))>>),
     VList(<<D2(VInt(2), VInt(0), VInt(36), VStr(""))>>),
     VList(<<D2(VInt(0), D1(VStr("number"), VStr("60")), VInt(46), D1(VInt(0), VNone))>>),
     VList(<<VInt(3), D2(VInt(2), VStr("60"), VStr("completedSections"), VList(<<>>))>>),
     VList(<<D1(VInt(2), VStr("60")), D1(VInt(2), VStr("ab"))>>),
     VList(<<D1(VInt(2), VStr("60")), VStr("ab"), D1(VInt(20), VInt(5))>>),
     VList(<<D1(VInt(2), VStr("ab")), VNone>>),
     VList(<<VDict(<< <<VInt(2), VStr("7")>>, <<VInt(44), VStr("ab")>>,
                      <<VInt(20), VInt(1)>> >>)>>),
     VList(<<D1(VInt(2), VStr(LongNumber))>>),
     VList(<<>>), VNone, D1(VInt(2), VStr("60"))}

\* One call of a patch handler
Call(handler, data, before, after, report) ==
    [handler |-> handler, data |-> data, before |-> before, after |-> after,
     report |-> report]

HubInit ==
    /\ ent = VNone /\ wire = VNone /\ dec = VNone /\ stage = "idle" /\ mut = NoMut
    /\ pc = "start"
    /\ session_state = VNone
    /\ calls = <<>>
    /\ FilterIdle /\ MainIdle /\ ClientIdle /\ HeapIdle

\* main(): session_state = get_current_session_state(token, event_id=EVENT_ID)
FetchSnapshot(resp) ==
    /\ pc = "start"
    /\ session_state' = get_current_session_state(resp)
    /\ pc' = "listening"
    /\ UNCHANGED calls
    /\ UNCHANGED <<codecVars, filterVars, mainVars, clientVars, heapVars>>

\* A handler that writes the laps_to_go (index 4) of a patch into the snapshot
_handle_session_patch_merging(data) ==
    /\ pc = "listening"
    /\ Len(calls) < MaxPatches
    /\ session_state' =
          LET patch == IF data.t = "list" THEN Enumerated(data) ELSE data
          IN IF session_state = VNone \/ patch.t # "dict" THEN session_state
             ELSE IF DictGet(patch, VInt(4), VNone) = VNone THEN session_state
             ELSE [session_state EXCEPT !.laps_to_go = DictLookup(patch, VInt(4))]
    /\ calls' = Append(calls, Call("session", data, session_state, session_state',
                                   session_patch_report(data)))
    /\ UNCHANGED pc
    /\ UNCHANGED <<codecVars, filterVars, mainVars, clientVars, heapVars>>

\* The handler registered for "ReceiveSessionPatch": it prints the patch and
\* assigns to no field of any object
_handle_session_patch(data) ==
    /\ pc = "listening"
    /\ Len(calls) < MaxPatches
    /\ calls' = Append(calls, Call("session", data, session_state, session_state,
                                   session_patch_report(data)))
    /\ UNCHANGED <<pc, session_state>>
    /\ UNCHANGED <<codecVars, filterVars, mainVars, clientVars, heapVars>>

\* A handler that adds a car to the snapshot for each car of the batch
_handle_car_patches_appending(data) ==
    /\ pc = "listening"
    /\ Len(calls) < MaxPatches
    /\ session_state' =
          IF session_state = VNone \/ data.t # "list" THEN session_state
          ELSE LET found == SelectSeq(car_patches_report(data).cars,
                                      LAMBDA r : r.kind = "car")
                   cars == [k \in 1..Len(found) |->
                              [CarPosition_new EXCEPT !.number = VStr(found[k].car_id)]]
               IN [session_state EXCEPT !.car_positions =
                     VList(session_state.car_positions.l \o cars)]
    /\ calls' = Append(calls, Call("cars", data, session_state, session_state',
                                   car_patches_report(data)))
    /\ UNCHANGED pc
    /\ UNCHANGED <<codecVars, filterVars, mainVars, clientVars, heapVars>>

\* The handler registered for "ReceiveCarPatches": it prints the patches and
\* assigns to no field of any object
_handle_car_patches(data) ==
    /\ pc = "listening"
    /\ Len(calls) < MaxPatches
    /\ calls' = Append(calls, Call("cars", data, session_state, session_state,
                                   car_patches_report(data)))
    /\ UNCHANGED <<pc, session_state>>
    /\ UNCHANGED <<codecVars, filterVars, mainVars, clientVars, heapVars>>

HubNext ==
    \/ \E resp \in Responses : FetchSnapshot(resp)
    \/ \E data \in SessionPatches : _handle_session_patch(data)
    \/ \E data \in CarPatchBatches : _handle_car_patches(data)

HubSpec == HubInit /\ [][HubNext]_vars

(***************************************************************************)
(* _filter_none_values as a process: it is called on a value, and on what  *)
(* it returned                                                             *)
(***************************************************************************)
MaxWidth == 2

\* Not returned yet
Unset == [t |-> "unset"]

\* What the containers of the model hold: scalars, None, and containers that
\* hold None at one or two levels
FilterElements ==
    {VNone, VInt(0), VStr("ab"),
     VList(<<>>), VList(<<VNone>>), VList(<<VNone, VStr("ab")>>),
     VDict(<<>>), D1(VStr("a"), VNone),
     D2(VStr("a"), VNone, VStr("b"), VList(<<VNone, VInt(0)>>))}

FilterKeys == <<VStr("number"), VInt(0), VStr("driverName")>>

\* The arguments: the elements, the lists of up to MaxWidth of them, and the
\* dicts that hold them under the first n keys, n up to MaxWidth
FilterInputs ==
    FilterElements
      \cup {VList(l) : l \in UNION {[1..n -> FilterElements] : n \in 0..MaxWidth}}
      \cup {VDict([k \in 1..n |-> <<FilterKeys[k], f[k]>>]) :
              n \in 0..MaxWidth, f \in [1..MaxWidth -> FilterElements]}

FilterInit ==
    /\ filter_arg \in FilterInputs
    /\ filter_out = Unset /\ refiltered = Unset
    /\ CodecIdle /\ HubIdle /\ MainIdle /\ ClientIdle /\ HeapIdle

\* filtered_value = _filter_none_values(value)
Filter ==
    /\ filter_out = Unset
    /\ filter_out' = _filter_none_values(filter_arg)
    /\ UNCHANGED <<filter_arg, refiltered>>
    /\ UNCHANGED <<codecVars, hubVars, mainVars, clientVars, heapVars>>

\* _filter_none_values(filtered_value)
Refilter ==
    /\ filter_out # Unset /\ refiltered = Unset
    /\ refiltered' = _filter_none_values(filter_out)
    /\ UNCHANGED <<filter_arg, filter_out>>
    /\ UNCHANGED <<codecVars, hubVars, mainVars, clientVars, heapVars>>

FilterNext == Filter \/ Refilter

FilterSpec == FilterInit /\ [][FilterNext]_vars

(***************************************************************************)
(* main.py: main(), statement by statement                                 *)
(***************************************************************************)
\* The statements of the try block of main(), in their order
Program ==
    <<"get_access_token", "get_current_session_state",
      "input", "update_drivers_api", "update_drivers_with_transponder_api",
      "input", "clear_driver_by_car", "clear_driver_by_transponder",
      "input", "update_car_videos_api",
      "input", "clear_car_videos_api">>

\* How many requests a function sends
Requests(step) ==
    IF step \in {"update_car_videos_api", "clear_car_videos_api"} THEN {1, 2} ELSE {1}

\* What a request ends in: status 200, another status, or an exception of
\* the requests library (no connection, timeout)
RequestOutcomes == {"200", "status", "exception"}

\* What the fetch of main() may receive
MainResponses ==
    {[outcome |-> "ok", raw |-> ScenarioPayload],
     [outcome |-> "ok", raw |-> VStr("ab")],
     [outcome |-> "http_error", raw |-> VNone],
     [outcome |-> "no_connection", raw |-> VNone]}

\* main() has returned
Returned == Len(Program) + 1

\* get_access_token(): raise_for_status() raises for a status that is not a
\* success, and requests.post raises when there is no connection
get_access_token(outcome) ==
    CASE outcome = "200" -> VStr("token")
      [] outcome = "status" -> Raise("HTTPError")
      [] outcome = "exception" -> Raise("ConnectionError")

\* A function whose requests are not in a try block: the exception of a
\* request is the function's
api_function_unguarded(outcomes) ==
    IF \E k \in DOMAIN outcomes : outcomes[k] = "exception"
    THEN Raise("ConnectionError") ELSE VNone

\* update_drivers_api, update_drivers_with_transponder_api,
\* clear_driver_by_car, clear_driver_by_transponder, update_car_videos_api,
\* clear_car_videos_api: each request is in a try block of its own whose
\* except clause prints; a status that is not 200 is printed; the function
\* returns None
api_function(outcomes) == VNone

\* input(prompt): the line read, or EOFError when there is nothing to read
input(outcome) == IF outcome = "enter" THEN VStr("") ELSE Raise("EOFError")

\* One statement of main() has run: an exception ends main() in one of its
\* except clauses, anything else leads to the next statement
Ran(step, outcome, result) ==
    /\ steps' = Append(steps, [step |-> step, outcome |-> outcome, result |-> result])
    /\ main_pc' = IF Raised(result) THEN Returned ELSE main_pc + 1
    /\ UNCHANGED <<codecVars, hubVars, filterVars, clientVars, heapVars>>

MainInit ==
    /\ main_pc = 1 /\ steps = <<>>
    /\ CodecIdle /\ HubIdle /\ FilterIdle /\ ClientIdle /\ HeapIdle

\* token = get_access_token()
GetToken(outcome) ==
    /\ main_pc = 1
    /\ Ran(Program[main_pc], outcome, get_access_token(outcome))

\* session_state = get_current_session_state(token, event_id=EVENT_ID)
GetState(resp) ==
    /\ main_pc = 2
    /\ Ran(Program[main_pc], resp.outcome, get_current_session_state(resp))

\* input("\nPress Enter to ...")
Prompt(outcome) ==
    /\ main_pc \in 3..Len(Program) /\ Program[main_pc] = "input"
    /\ Ran(Program[main_pc], outcome, input(outcome))

\* One of the six functions that update or clear
Update(outcomes) ==
    /\ main_pc \in 3..Len(Program) /\ Program[main_pc] # "input"
    /\ DOMAIN outcomes = Requests(Program[main_pc])
    /\ Ran(Program[main_pc], outcomes, api_function(outcomes))

MainNext ==
    \/ \E outcome \in RequestOutcomes : GetToken(outcome)
    \/ \E resp \in MainResponses : GetState(resp)
    \/ \E outcome \in {"enter", "eof"} : Prompt(outcome)
    \/ \E outcomes \in [{1} -> RequestOutcomes] \cup [{1, 2} -> RequestOutcomes] :
          Update(outcomes)

MainSpec == MainInit /\ [][MainNext]_vars

(***************************************************************************)
(* signalr_client.py: the connection of RedMistStatusHub, next to the      *)
(* snapshot that main.py fetches                                           *)
(***************************************************************************)
\* How many times the connection opens
MaxOpens == 2

\* The patches the server sends in this part of the model
HubSessionPatches == {Sparse(29, 4, VInt(5)), D1(VStr("currentFlag"), VInt(2))}
HubCarPatchBatches == {VList(<<D2(VInt(2), VStr("7"), VInt(20), VInt(1))>>), VList(<<>>)}

\* connection.send on a connection that is open hands the message to the
\* transport; on one that is not, the library either raises or hands the
\* message to a transport whose handshake is not over
SendOutcomes(connection) == IF connection = "open" THEN {"sent"} ELSE {"sent", "raised"}

\* subscribe_to_event(event_id): connection.send("SubscribeToEventV2",
\* [event_id]) in a try block, whatever the state of the connection; what
\* send raises is printed
subscribe_to_event(connection, outcome) ==
    [attempted |-> TRUE, open |-> connection = "open", raised |-> outcome = "raised"]

ClientInit ==
    /\ CodecIdle /\ HubIdle /\ FilterIdle /\ MainIdle /\ ClientIdle /\ HeapIdle

\* start(): build_connection(), connection.start(), then asyncio.sleep(2)
Start ==
    /\ start_pc = "idle"
    /\ conn' = "connecting"
    /\ start_pc' = "sleeping"
    /\ UNCHANGED <<opens, seen, subscription>>
    /\ UNCHANGED <<codecVars, hubVars, filterVars, mainVars, heapVars>>

\* _on_open: called when the connection opens, for the first time or after
\* with_automatic_reconnect connected again; it prints
_on_open ==
    /\ conn \in {"connecting", "closed"}
    /\ opens < MaxOpens
    /\ conn' = "open"
    /\ opens' = opens + 1
    /\ seen' = [calls |-> Len(calls), pc |-> pc]
    /\ UNCHANGED <<start_pc, subscription>>
    /\ UNCHANGED <<codecVars, hubVars, filterVars, mainVars, heapVars>>

\* _on_close: called when the connection is lost; it prints
_on_close ==
    /\ conn = "open"
    /\ conn' = "closed"
    /\ UNCHANGED <<start_pc, opens, seen, subscription>>
    /\ UNCHANGED <<codecVars, hubVars, filterVars, mainVars, heapVars>>

\* start(), after the sleep: self.subscribe_to_event(event_id)
Subscribe(outcome) ==
    /\ start_pc = "sleeping"
    /\ outcome \in SendOutcomes(conn)
    /\ subscription' = subscribe_to_event(conn, outcome)
    /\ start_pc' = "running"
    /\ UNCHANGED <<conn, opens, seen>>
    /\ UNCHANGED <<codecVars, hubVars, filterVars, mainVars, heapVars>>

\* A message of the server reaches its handler over the open connection
Receive(handler, data) ==
    /\ conn = "open"
    /\ \/ handler = "session" /\ data \in HubSessionPatches /\ _handle_session_patch(data)
       \/ handler = "cars" /\ data \in HubCarPatchBatches /\ _handle_car_patches(data)

ClientNext ==
    \/ \E resp \in MainResponses : FetchSnapshot(resp)
    \/ Start
    \/ _on_open
    \/ _on_close
    \/ \E outcome \in {"sent", "raised"} : Subscribe(outcome)
    \/ \E handler \in {"session", "cars"} :
          \E data \in HubSessionPatches \cup HubCarPatchBatches : Receive(handler, data)

ClientSpec == ClientInit /\ [][ClientNext]_vars

(***************************************************************************)
(* Objects by reference: from_msgpack_dict on a payload that lives in a    *)
(* heap of mutable objects, and assignments to the payload and the entity  *)
(***************************************************************************)
\* How long a list of the heap grows
MaxCars == 2

\* A reference to the object at address a
Ref(a) == [t |-> "ref", a |-> a]

\* The attributes of SessionState that hold a list
ListAttrs == <<"event_entries", "car_positions", "flag_durations", "sections",
               "announcements">>

\* The value an object has: every reference replaced by what it refers to
RECURSIVE Resolve(_, _)
Resolve(h, v) ==
    CASE v.t = "ref" -> Resolve(h, h[v.a])
      [] v.t = "list" -> VList([k \in 1..Len(v.l) |-> Resolve(h, v.l[k])])
      [] v.t = "dict" -> VDict([k \in 1..Len(v.d) |-> <<v.d[k][1], Resolve(h, v.d[k][2])>>])
      [] v.t = "SessionState" ->
            [f \in DOMAIN v |-> IF f = "t" THEN v[f] ELSE Resolve(h, v[f])]
      [] OTHER -> v

\* d[k] = v
SetItem(d, k, v) ==
    IF DictHas(d, k)
    THEN VDict([n \in 1..Len(d.d) |-> IF d.d[n][1] = k THEN <<k, v>> ELSE d.d[n]])
    ELSE VDict(Append(d.d, <<k, v>>))

\* The instance cls(...) builds out of the decoded values: each list
\* comprehension is a new list, and class_colors is the object passed in
\* when it is truthy, a new dict otherwise (`class_colors or {}`); nothing
\* is built when a decoder raised
Instance(h, state, colors) ==
    IF Raised(state) THEN [heap |-> h, result |-> state]
    ELSE
    LET n == Len(h)
        shared == colors.t = "ref" /\ Truthy(Resolve(h, colors))
        lists == [k \in 1..Len(ListAttrs) |-> state[ListAttrs[k]]]
        fresh == IF shared \/ Truthy(state["class_colors"]) THEN <<>> ELSE <<VDict(<<>>)>>
        object ==
            [f \in DOMAIN state |->
                IF \E k \in 1..Len(ListAttrs) : ListAttrs[k] = f
                THEN Ref(n + (CHOOSE k \in 1..Len(ListAttrs) : ListAttrs[k] = f))
                ELSE IF f = "class_colors" /\ shared THEN colors
                ELSE IF f = "class_colors" /\ fresh # <<>> THEN Ref(n + Len(ListAttrs) + 1)
                ELSE state[f]]
    IN [heap |-> h \o lists \o fresh \o <<object>>,
        result |-> Ref(n + Len(lists) + Len(fresh) + 1)]

\* The payload with data.setdefault(26, {}) done
Defaulted(h, a) ==
    IF DictHas(h[a], VInt(26)) THEN h
    ELSE [h EXCEPT ![a] = SetItem(@, VInt(26), Ref(Len(h) + 1))] \o <<VDict(<<>>)>>

\* A from_msgpack_dict that stores the default in the payload:
\* class_colors=data.setdefault(26, {})
SessionState_from_msgpack_dict_setdefault(h, a) ==
    Instance(Defaulted(h, a),
             SessionState_from_msgpack_dict(Resolve(h, h[a])),
             DictLookup(Defaulted(h, a)[a], VInt(26)))

\* SessionState.from_msgpack_dict(data), data being the dict at address a:
\* what it returns and the heap it leaves
SessionState_from_msgpack_dict_at(h, a) ==
    Instance(h, SessionState_from_msgpack_dict(Resolve(h, h[a])),
             DictGet(h[a], VInt(26), VDict(<<>>)))

\* The array of a car, as the server sends it
CarArray == CarPosition_to_msgpack(Car60)

\* The payloads: the dict unpacked from the response is at address 1, the
\* lists and dicts it holds are at the addresses after it
HeapPayloads ==
    {<<D2(VInt(14), Ref(2), VInt(26), Ref(3)), VList(<<CarArray>>), SampleColors>>,
     <<D2(VInt(14), Ref(2), VInt(26), Ref(3)), VList(<<>>), VDict(<<>>)>>,
     <<D2(VInt(4), VInt(5), VInt(14), Ref(2)), VList(<<CarArray>>)>>,
     <<D2(VInt(4), VInt(5), VInt(26), VNone)>>}

\* What the program assigns: a class colour, or one more car
HeapWrites ==
    {[op |-> "setitem", k |-> VStr("ab"), v |-> VStr("")],
     [op |-> "setitem", k |-> VStr("X"), v |-> VStr("y")],
     [op |-> "append", k |-> VNone, v |-> VNone]}

\* The heap after the write w to the dict at address colors or to the list
\* at address cars, the one appended being item
Written(h, w, colors, cars, item) ==
    IF w.op = "setitem" THEN [h EXCEPT ![colors] = SetItem(@, w.k, w.v)]
    ELSE [h EXCEPT ![cars] = VList(Append(@.l, item))]

HeapInit ==
    /\ heap \in HeapPayloads
    /\ h_pc = "new"
    /\ h_state = VNone /\ h_again = VNone /\ h_first = VNone
    /\ h_orig = Resolve(heap, Ref(1))
    /\ CodecIdle /\ HubIdle /\ FilterIdle /\ MainIdle /\ ClientIdle

\* The decoding returned: the first result is state, a second one is kept
\* next to it
Assigned(done) ==
    /\ heap' = done.heap
    /\ IF h_pc = "new"
       THEN /\ h_state' = done.result
            /\ h_first' = Resolve(done.heap, done.result)
            /\ UNCHANGED h_again
       ELSE /\ h_again' = done.result
            /\ UNCHANGED <<h_state, h_first>>
    /\ h_pc' = "decoded"
    /\ UNCHANGED h_orig
    /\ UNCHANGED <<codecVars, hubVars, filterVars, mainVars, clientVars>>

\* state = SessionState.from_msgpack_dict(data), a first and a second time
DecodePayload ==
    /\ h_pc \in {"new", "decoded"}
    /\ h_again = VNone
    /\ Assigned(SessionState_from_msgpack_dict_at(heap, 1))

\* state.class_colors[k] = v, state.car_positions.append(CarPosition())
MutateEntity(w) ==
    /\ h_pc \in {"decoded", "entity_written"}
    /\ w.op = "setitem" => heap[h_state.a].class_colors.t = "ref"
    /\ w.op = "append" => Len(heap[heap[h_state.a].car_positions.a].l) < MaxCars
    /\ heap' = Written(heap, w, heap[h_state.a].class_colors.a,
                       heap[h_state.a].car_positions.a, CarPosition_new)
    /\ h_pc' = "entity_written"
    /\ UNCHANGED <<h_state, h_again, h_orig, h_first>>
    /\ UNCHANGED <<codecVars, hubVars, filterVars, mainVars, clientVars>>

\* data[26][k] = v, data[14].append(array)
MutateData(w) ==
    /\ h_pc \in {"decoded", "data_written"}
    /\ IF w.op = "setitem"
       THEN DictGet(heap[1], VInt(26), VNone).t = "ref"
       ELSE /\ DictGet(heap[1], VInt(14), VNone).t = "ref"
            /\ Len(heap[DictLookup(heap[1], VInt(14)).a].l) < MaxCars
    /\ heap' = Written(heap, w, DictGet(heap[1], VInt(26), Ref(1)).a,
                       DictGet(heap[1], VInt(14), Ref(1)).a, CarArray)
    /\ h_pc' = "data_written"
    /\ UNCHANGED <<h_state, h_again, h_orig, h_first>>
    /\ UNCHANGED <<codecVars, hubVars, filterVars, mainVars, clientVars>>

HeapNext ==
    \/ DecodePayload
    \/ \E w \in HeapWrites : MutateEntity(w)
    \/ \E w \in HeapWrites : MutateData(w)

HeapSpec == HeapInit /\ [][HeapNext]_vars

(***************************************************************************)
(* Claims                                                                  *)
(***************************************************************************)
RoundTripped == stage = "decoded" /\ mut = NoMut

\* C1: round trip.  For every object e of every class, decoding the
\* encoding of e yields an object equal to e, attribute for attribute.
C1_RoundTrip ==
    RoundTripped =>
        /\ ~Raised(dec)
        /\ dec.t = ent.t
        /\ \A i \in 0..(FieldCount(ent.t) - 1) : Field(dec, i) = Field(ent, i)

\* A populated CarPosition (video, sections, lap start time) and a populated
\* SessionState have made the round trip.
C1_Witness ==
    /\ RoundTripped
    /\ \/ /\ ent.t = "CarPosition"
          /\ ent.in_car_video # VNone
          /\ ent.lap_start_time = SampleTime
          /\ ent.completed_sections # VList(<<>>)
       \/ /\ ent.t = "SessionState"
          /\ ent.car_positions # VList(<<>>)
          /\ ent.session_start_time = SampleDatetime

\* The payload was cut or lost keys, and has been decoded
Omitting == stage = "decoded" /\ mut.op \in {"cut", "drop"}

\* The payload completed with the encoding of the class defaults at the
\* indices it omits: every omitted field carried with its default value.
WithDefaults(cls, w, S) ==
    LET full == Encoded(New(cls))
    IN IF w.t = "list"
       THEN VList([n \in 1..FieldCount(cls) |->
                     IF (n - 1) \in S THEN full.l[n] ELSE w.l[n]])
       ELSE VDict([n \in 1..FieldCount(cls) |->
                     IF (n - 1) \in S THEN full.d[n]
                     ELSE <<VInt(n - 1), DictLookup(w, VInt(n - 1))>>])

C7_DefaultFill ==
    (stage = "decoded" /\ mut.op = "cut") =>
        /\ ~Raised(dec)
        /\ dec.t = ent.t
        /\ Len(wire.l) < FieldCount(ent.t)
        /\ \A i \in 0..(FieldCount(ent.t) - 1) :
              Field(dec, i) = IF i < Len(wire.l) THEN Field(ent, i)
                              ELSE Field(New(ent.t), i)

\* A populated CarPosition cut to 23 values, and an array cut to nothing
C7_Witness ==
    /\ stage = "decoded" /\ mut.op = "cut"
    /\ \/ /\ ent.t = "CarPosition" /\ Len(wire.l) = 23
          /\ ent.driver_name = VStr("ab") /\ dec.driver_name = VStr("")
          /\ dec.number = VStr("60")
       \/ /\ ent.t = "VideoStatus" /\ Len(wire.l) = 0
          /\ ent.video_system_type # VideoSystemType_NONE

\* C8: a SessionState decodes from a sparse map of any subset of the indices:
\* supplied indices carry their values, absent ones the defaults; the map
\* {0: 2, 1: "Test Race", 15: 1} gives laps_to_go 0, no entries, flag GREEN.
C8_SparseMap ==
    /\ (stage = "decoded" /\ mut.op = "drop") =>
          /\ ~Raised(dec)
          /\ dec.t = "SessionState"
          /\ \A i \in 0..28 :
                Field(dec, i) = IF i \in mut.idx THEN Field(SessionState_new, i)
                                ELSE Field(ent, i)
    /\ (stage = "decoded" /\ mut.op = "sent") =>
          /\ ~Raised(dec)
          /\ dec.event_id = VInt(2)
          /\ dec.event_name = VStr("Test Race")
          /\ dec.laps_to_go = VInt(0)
          /\ dec.event_entries = VList(<<>>)
          /\ dec.current_flag = Flags_GREEN

\* The example map, and a populated map that kept only its car positions
C8_Witness ==
    /\ stage = "decoded"
    /\ \/ mut.op = "sent" /\ wire = ScenarioPayload
       \/ /\ mut.op = "drop" /\ mut.idx = (0..28) \ {14}
          /\ ent.laps_to_go = VInt(3) /\ dec.car_positions # VList(<<>>)

\* C9: a CarPosition array that ends before index 23 (25) decodes
\* overall_positions_gained (in_class_positions_gained) to -999; an array
\* carrying 0 there decodes it to 0.
C9_Sentinel ==
    (stage = "decoded" /\ WireClass = "CarPosition" /\ mut.op \in {"none", "cut"}) =>
        /\ ~Raised(dec)
        /\ Len(wire.l) <= 23 => dec.overall_positions_gained = VInt(-999)
        /\ Len(wire.l) <= 25 => dec.in_class_positions_gained = VInt(-999)
        /\ (Len(wire.l) > 23 /\ wire.l[24] = VInt(0)) =>
              dec.overall_positions_gained = VInt(0)
        /\ (Len(wire.l) > 25 /\ wire.l[26] = VInt(0)) =>
              dec.in_class_positions_gained = VInt(0)

\* An array without index 23, of a car that had gained 3 places
C9_Witness ==
    /\ stage = "decoded" /\ WireClass = "CarPosition" /\ mut.op = "cut"
    /\ Len(wire.l) = 20
    /\ ent.overall_positions_gained = VInt(3)
    /\ dec.overall_positions_gained = VInt(-999)

\* C10 (as claimed): in every decoded CarPosition the two positions-gained
\* fields hold an integer, never null.
C10_NeverNull ==
    (stage = "decoded" /\ WireClass = "CarPosition" /\ ~Raised(dec)) =>
        /\ dec.overall_positions_gained.t = "int"
        /\ dec.in_class_positions_gained.t = "int"

(***************************************************************************)
(* Claims about the patch handlers                                         *)
(***************************************************************************)
\* The calls made so far, by handler
CallsOf(handler) == {n \in 1..Len(calls) : calls[n].handler = handler}

\* The entries (key, value) of a patch, whichever of the two forms it has
Entries(data) ==
    IF data.t = "list" THEN Enumerated(data).d
    ELSE IF data.t = "dict" THEN data.d
    ELSE <<>>

\* The positions of the cars numbered "60" in a snapshot
Cars60(state) ==
    IF state = VNone THEN {}
    ELSE {k \in 1..Len(state.car_positions.l) :
            state.car_positions.l[k].number = VStr("60")}

OnlyPosition == VList(<<D1(VInt(20), VInt(5))>>)

\* An entry the handler prints: not None, and not a map that holds only None
Shown(value) ==
    /\ value # VNone
    /\ value.t = "dict" => Truthy(_filter_none_values(value))

FalsyScalars == {VStr(""), VInt(0), VBool(FALSE)}

CarArrays(data) ==
    {e \in 1..Len(Entries(data)) :
        /\ Entries(data)[e][1] \in {VInt(14), VStr("carPositions")}
        /\ Entries(data)[e][2].t = "list"
        /\ Entries(data)[e][2].l # <<>>}

NullOrAbsent ==
    /\ stage = "decoded"
    /\ \/ mut.op = "cut"
       \/ mut.op = "null" /\ Cardinality(mut.idx) = 1

\* C11 (as amended): a null or absent in_car_video decodes to no value (None)
\* and not to the defaults of VideoStatus; a null or absent completed_sections
\* decodes to the empty list; a null or absent video_destination of a
\* VideoStatus decodes to a default-filled VideoDestination.
C11_NestedNull ==
    NullOrAbsent =>
        /\ (WireClass = "CarPosition" /\ 46 \in mut.idx) =>
              ~Raised(dec) /\ dec.in_car_video = VNone
        /\ (WireClass = "CarPosition" /\ 41 \in mut.idx) =>
              ~Raised(dec) /\ dec.completed_sections = VList(<<>>)
        /\ (WireClass = "VideoStatus" /\ mut.idx = {1}) =>
              ~Raised(dec) /\ dec.video_destination = VideoDestination_new

\* C11 (as claimed): a null or absent nested value decodes to no value, the
\* video_destination of a VideoStatus included.
C11_Original ==
    NullOrAbsent =>
        /\ (WireClass = "CarPosition" /\ 46 \in mut.idx /\ ~Raised(dec)) =>
              dec.in_car_video = VNone
        /\ (WireClass = "VideoStatus" /\ mut.idx = {1} /\ ~Raised(dec)) =>
              dec.video_destination = VNone

\* A car that had a video status was decoded from a payload with null at
\* index 46
C11_Witness ==
    /\ NullOrAbsent /\ mut.op = "null"
    /\ WireClass = "CarPosition" /\ mut.idx = {46}
    /\ ent.in_car_video # VNone
    /\ dec.in_car_video = VNone

\* C12 (as claimed): a SessionState map with null at any one index 0..28
\* decodes; the decode never raises.
C12_NullHandled ==
    (stage = "decoded" /\ WireClass = "SessionState" /\ mut.op = "null"
       /\ Cardinality(mut.idx) = 1) =>
        ~Raised(dec)

C14_TrailingIgnored ==
    (stage = "decoded" /\ mut.op = "extra") =>
        /\ Cardinality(WireIndices(wire)) > FieldCount(WireClass)
        /\ ~Raised(dec)
        /\ dec = Decoded(WireClass, Encoded(ent))

\* A car with a video status, and so a nested VideoDestination, was decoded
\* from an array of 53 values
C14_Witness ==
    /\ stage = "decoded" /\ mut.op = "extra"
    /\ WireClass = "CarPosition" /\ Len(wire.l) = 53
    /\ wire.l[52] = VStr("ab")
    /\ ent.in_car_video # VNone
    /\ dec = ent

(***************************************************************************)
(* Claims about values that are no member of an enum                       *)
(***************************************************************************)
\* C15: decoding an enum field (Flags, VideoSystemType, VideoDestinationType)
\* whose wire integer is the value of no member fails: the enum lookup raises
\* ValueError, and no entity is produced.
C15_UnknownEnumFails ==
    (stage = "decoded" /\ mut.op = "enum") => dec = Raise("ValueError")

\* A car was decoded from an array with 8 as its track_flag (index 38)
C15_Witness ==
    /\ stage = "decoded" /\ mut.op = "enum"
    /\ WireClass = "CarPosition" /\ mut.idx = {38}
    /\ wire.l[39] = VInt(FlagsMax + 1)
    /\ Raised(dec)

\* C16 (as amended): an unknown enum integer fails the decode of the record
\* that holds it and of every record around it: a SessionState whose
\* car_positions contain one CarPosition with an out-of-range track_flag does
\* not decode (ValueError), and the snapshot fetch returns no SessionState.
C16_WholeRecordFails ==
    /\ (stage = "decoded" /\ mut.op = "carflag") => dec = Raise("ValueError")
    /\ (stage = "fetched" /\ mut.op = "carflag") => dec = VNone

\* C16 (as claimed): the SessionState still decodes, with every field but the
\* track_flag of that car decoded from the wire.
C16_Original ==
    (stage = "decoded" /\ mut.op = "carflag") =>
        /\ ~Raised(dec)
        /\ \A i \in (0..28) \ {14} : Field(dec, i) = Field(ent, i)

\* A snapshot of two cars, the second with an unknown track_flag, was decoded
C16_Witness ==
    /\ stage = "decoded" /\ mut.op = "carflag" /\ mut.idx = {2}
    /\ Len(ent.car_positions.l) = 2
    /\ ent.event_name = VStr("ab")
    /\ Raised(dec)

(***************************************************************************)
(* Claims about values of the wrong shape                                  *)
(***************************************************************************)
\* C17 (as claimed): a value that is not an array where the array of a record
\* is expected, and a value that is not a list at the index of a sequence
\* field, yield an error and never an entity.
C17_MismatchIsError ==
    (stage = "decoded" /\ mut.op \in {"shape", "seq"}) => Raised(dec)

(***************************************************************************)
(* Claims about batches and the order of the patches                       *)
(***************************************************************************)
\* The records of a batch that are neither an array nor a map
Malformed(data) == {k \in 1..Len(data.l) : data.l[k].t \notin {"list", "dict"}}

\* C18: in a batch of car patches a malformed record ends the handling of
\* that record only and is reported; every other record of the batch, before
\* and after it, is handled as it is when it arrives alone, and the batch as
\* a whole is not given up.
\* (stated of the call handled last: every call is the last one of the state
\* it led to)
C18_RecordIsolated ==
    \A n \in CallsOf("cars") \cap {Len(calls)} :
        LET c == calls[n]
        IN c.data.t = "list" =>
              /\ c.report.kind = "cars"
              /\ Len(c.report.cars) = Len(c.data.l)
              /\ \A k \in 1..Len(c.data.l) :
                    /\ k \in Malformed(c.data) => c.report.cars[k] = [kind |-> "unexpected"]
                    /\ k \notin Malformed(c.data) =>
                          /\ c.report.cars[k].kind = "car"
                          /\ c.report.cars[k] =
                               car_patches_report(VList(<<c.data.l[k]>>)).cars[1]
              /\ c.after = c.before

\* A batch of three records, the second malformed, has been handled: the
\* cars before and after it are reported
C18_Witness ==
    \E n \in CallsOf("cars") :
        /\ calls[n].data.t = "list"
        /\ Len(calls[n].data.l) = 3
        /\ Malformed(calls[n].data) = {2}
        /\ calls[n].report.cars[1].car_id = "60"
        /\ calls[n].report.cars[3].lines = <<Line("field_20", VInt(5))>>

\* The pairs of session patches handled one right after the other that carry
\* different values for the same index
Conflicts ==
    {n \in 1..(Len(calls) - 1) :
        /\ calls[n].handler = "session" /\ calls[n + 1].handler = "session"
        /\ \E e \in 1..Len(Entries(calls[n].data)), f \in 1..Len(Entries(calls[n + 1].data)) :
              /\ Entries(calls[n].data)[e][1] = Entries(calls[n + 1].data)[f][1]
              /\ Entries(calls[n].data)[e][1].t = "int"
              /\ Entries(calls[n].data)[e][2] # VNone
              /\ Entries(calls[n + 1].data)[f][2] # VNone
              /\ Entries(calls[n].data)[e][2] # Entries(calls[n + 1].data)[f][2]}

Named(rec, name, index) ==
    IF DictHas(rec, VStr(name)) THEN DictLookup(rec, VStr(name))
    ELSE IF DictHas(rec, VInt(index)) THEN DictLookup(rec, VInt(index))
    ELSE VNone

IsName(v) == v.t = "str" /\ v.s # ""

\* An identity of more than 50 characters is replaced
Cut(id) == IF Len(id) > MaxCarIdLen THEN "Unknown" ELSE id

\* The car numbers of a snapshot
Numbers(state) ==
    IF state = VNone THEN {}
    ELSE {state.car_positions.l[k].number : k \in 1..Len(state.car_positions.l)}

RECURSIVE OnWire(_)
\* What a value of an attribute is on the wire: a member of an enumeration
\* as its integer, a timestamp as its ISO text, a record as the array of its
\* attributes in the order of their keys, a sequence element by element,
\* anything else (None included) as it is
OnWire(v) ==
    CASE v.t \in IntEnums -> VInt(v.i)
      [] v.t = "time" -> VStr(time_isoformat(v))
      [] v.t = "datetime" -> VStr(datetime_isoformat(v))
      [] v.t = "list" -> VList([k \in 1..Len(v.l) |-> OnWire(v.l[k])])
      [] v.t \in {"VideoDestination", "VideoStatus", "CompletedSection", "EventEntry",
                  "CarPosition", "FlagDuration", "Section", "Announcement"} ->
            VList([k \in 1..FieldCount(v.t) |-> OnWire(Field(v, k - 1))])
      [] OTHER -> v

\* C22: encode(e) is, for an object of every class, the sequence of exactly
\* field_count values in the order of the wire indices (51 for a CarPosition;
\* the keys 0..28, in this order, for a SessionState), each the current value
\* of its attribute, nested records encoded in the same way and an absent
\* nested record or timestamp encoded as null.
C22_EncodeShape ==
    (stage = "wire" /\ mut = NoMut) =>
        /\ ~Raised(wire)
        /\ FieldCount("CarPosition") = 51 /\ FieldCount("SessionState") = 29
        /\ IF ent.t = "SessionState"
           THEN /\ wire.t = "dict" /\ Len(wire.d) = FieldCount(ent.t)
                /\ \A k \in 1..Len(wire.d) :
                      wire.d[k] = <<VInt(k - 1), OnWire(Field(ent, k - 1))>>
           ELSE /\ wire.t = "list" /\ Len(wire.l) = FieldCount(ent.t)
                /\ wire = OnWire(ent)

\* A CarPosition with completed sections, without video and without lap
\* start time has been encoded to 51 values, null at 43 and at 46
C22_Witness ==
    /\ stage = "wire" /\ mut = NoMut
    /\ ent.t = "CarPosition"
    /\ ent.in_car_video = VNone /\ ent.lap_start_time = VNone
    /\ Len(ent.completed_sections.l) > 0
    /\ Len(wire.l) = 51 /\ wire.l[44] = VNone /\ wire.l[47] = VNone

(***************************************************************************)
(* Claims about errors                                                     *)
(***************************************************************************)
\* What a handler that returned has printed: its lines, none of them an
\* exception
NormalReturn(report) ==
    /\ report.kind \in {"session", "cars", "unexpected"}
    /\ report.kind = "session" =>
          \A k \in 1..Len(report.lines) : ~Raised(report.lines[k].shown)
    /\ report.kind = "cars" =>
          \A k \in 1..Len(report.cars) :
             /\ report.cars[k].kind \in {"car", "unexpected"}
             /\ report.cars[k].kind = "car" =>
                   \A j \in 1..Len(report.cars[k].lines) :
                      ~Raised(report.cars[k].lines[j].shown)

\* C24: no error is fatal.  get_current_session_state returns a SessionState
\* or None for every outcome of the request and every payload, never an
\* exception; _handle_session_patch and _handle_car_patches return for every
\* argument.
\* (Stated of the call handled last: every call is the last one of the
\* state it led to.)
C24_NeverFatal ==
    /\ pc # "start" => (session_state = VNone \/ session_state.t = "SessionState")
    /\ \A n \in {Len(calls)} \ {0} : NormalReturn(calls[n].report)

\* The fetch has failed and returned None, and after it each handler was
\* given something that is no patch and returned
C24_Witness ==
    /\ pc = "listening" /\ session_state = VNone
    /\ \E n \in CallsOf("session") : calls[n].report.kind = "unexpected"
    /\ \E n \in CallsOf("cars") : calls[n].report.kind = "unexpected"

(***************************************************************************)
(* Claims about what the handlers print                                    *)
(***************************************************************************)
\* The value found under a name, or else under an index: not null, no map
Found(rec, name, index) ==
    LET v == Named(rec, name, index)
    IN IF v # VNone /\ v.t # "dict" THEN v ELSE VNone

\* The maps a car patch holds at its integer keys
NestedMaps(rec) ==
    {rec.d[e][2] : e \in {m \in 1..Len(rec.d) : rec.d[m][1].t = "int" /\ rec.d[m][2].t = "dict"}}

SessionNamedKeys == SessionListKeys \cup {VStr("classColors"), VStr("currentFlag")}

\* An entry a handler reports: not None and, when it is a map, not empty
\* after the filter, unless the session handler prints it under one of its
\* named keys
ReportedEntry(handler, key, value) ==
    /\ value # VNone
    /\ value.t = "dict" =>
          \/ Truthy(_filter_none_values(value))
          \/ handler = "session" /\ key \in SessionNamedKeys

\* The names of the entries of a patch that are reported, in their order
ReportedFields(handler, entries) ==
    LET kept == SelectSeq(entries, LAMBDA p : ReportedEntry(handler, p[1], p[2]))
    IN [k \in 1..Len(kept) |-> FieldName(kept[k][1])]

\* The names a handler printed, in their order
PrintedFields(lines) == [k \in 1..Len(lines) |-> lines[k].field]

RECURSIVE NoneInside(_)
\* A dict value or a list element of v, at any depth, is None
NoneInside(v) ==
    CASE v.t = "dict" ->
            \E k \in 1..Len(v.d) : v.d[k][2] = VNone \/ NoneInside(v.d[k][2])
      [] v.t = "list" ->
            \E k \in 1..Len(v.l) : v.l[k] = VNone \/ NoneInside(v.l[k])
      [] OTHER -> FALSE

RECURSIVE Leaves(_, _)
\* The scalars of v that are not None, in their order, each with the keys
\* that lead to it (a list element has no key of its own, only its place
\* among the others)
Leaves(v, path) ==
    CASE v.t = "dict" ->
            Concat([k \in 1..Len(v.d) |-> Leaves(v.d[k][2], Append(path, v.d[k][1]))])
      [] v.t = "list" ->
            Concat([k \in 1..Len(v.l) |-> Leaves(v.l[k], Append(path, VStr("[]")))])
      [] v.t = "none" -> <<>>
      [] OTHER -> << <<path, v>> >>

\* C27: _filter_none_values filters None out at every depth: for every
\* argument built from dicts, lists and scalars the result holds no None as
\* a dict value or list element at any depth, keeps every scalar that is not
\* None under its key and in its order, leaves the argument as it was, and
\* filtering the result again returns an equal value.
C27_FilterNone ==
    /\ [](/\ filter_out # Unset =>
                /\ ~NoneInside(filter_out)
                /\ Leaves(filter_out, <<>>) = Leaves(filter_arg, <<>>)
                /\ filter_out.t = filter_arg.t
          /\ refiltered # Unset => refiltered = filter_out)
    /\ [][filter_arg' = filter_arg /\ (filter_out # Unset => filter_out' = filter_out)]_vars

\* A dict that holds None, a scalar and a dict holding a list with None has
\* been filtered, and the result filtered again
C27_Witness ==
    /\ filter_arg.t = "dict" /\ Len(filter_arg.d) = 2
    /\ filter_arg.d[1][2] = VNone
    /\ filter_arg.d[2][2] = D2(VStr("a"), VNone, VStr("b"), VList(<<VNone, VInt(0)>>))
    /\ filter_out = D1(VInt(0), D1(VStr("b"), VList(<<VInt(0)>>)))
    /\ refiltered = filter_out

\* The statements of main() that send requests after the token is there
AfterToken == {"get_current_session_state", "update_drivers_api",
               "update_drivers_with_transponder_api", "clear_driver_by_car",
               "clear_driver_by_transponder", "update_car_videos_api",
               "clear_car_videos_api"}

\* The statement failed: the fetch returned no state, or a request of the
\* function ended in a status that is not 200 or in an exception
StepFailed(entry) ==
    IF entry.step = "get_current_session_state" THEN entry.result = VNone
    ELSE \E r \in DOMAIN entry.outcome : entry.outcome[r] # "200"

\* C29: the statements of main() run in the order of the program; the fetch
\* and the six functions that update or clear never raise, whatever their
\* requests ended in, so that main() goes on to the statement after them;
\* main() ends before its last statement only when the token request failed
\* (and then nothing ran after it) or when a prompt could not be read (no
\* request)
C29_LaterStepsRun ==
    /\ \A k \in 1..Len(steps) : steps[k].step = Program[k]
    /\ main_pc \in {Len(steps) + 1, Returned}
    /\ \A k \in 1..Len(steps) :
          steps[k].step \in AfterToken =>
              /\ ~Raised(steps[k].result)
              /\ k < Len(Program) => (Len(steps) > k \/ main_pc = k + 1)
    /\ (main_pc = Returned /\ Len(steps) < Len(Program)) =>
          /\ steps[Len(steps)].step \in {"get_access_token", "input"}
          /\ Raised(steps[Len(steps)].result)
    /\ (Len(steps) >= 1 /\ Raised(steps[1].result)) =>
          (Len(steps) = 1 /\ main_pc = Returned)

\* C29 witness: main() has returned after the fetch failed and a request of
\* every function ended in an exception, and every statement of the program
\* ran
C29_Witness ==
    /\ main_pc = Returned /\ Len(steps) = Len(Program)
    /\ \A k \in 1..Len(steps) :
          steps[k].step \in AfterToken =>
              /\ StepFailed(steps[k])
              /\ steps[k].step # "get_current_session_state" =>
                    \E r \in DOMAIN steps[k].outcome : steps[k].outcome[r] = "exception"

C28_SentWhenOpen ==
    (subscription.attempted /\ ~subscription.raised) => subscription.open

\* C23: SessionState.from_msgpack_dict leaves the payload it decodes with
\* the value it had, changes no object that was there before (it only
\* builds new ones) and nothing else, returns the entity that the payload's
\* value determines, and returns for a second decoding of the same payload
\* an entity with the same attribute values
C23_DecodePure ==
    /\ [](h_pc = "decoded" =>
            /\ Resolve(heap, Ref(1)) = h_orig
            /\ Resolve(heap, h_state) = SessionState_from_msgpack_dict(h_orig)
            /\ h_again # VNone => Resolve(heap, h_again) = Resolve(heap, h_state))
    /\ [][(h_state' # h_state \/ h_again' # h_again) =>
            /\ Len(heap') > Len(heap)
            /\ \A a \in 1..Len(heap) : heap'[a] = heap[a]
            /\ UNCHANGED <<codecVars, hubVars, filterVars, mainVars, clientVars>>]_vars

\* C23 witness: a payload with a car and class colours has been decoded
\* twice, into two instances
C23_Witness ==
    /\ h_pc = "decoded" /\ h_again # VNone /\ h_again # h_state
    /\ Len(Resolve(heap, h_state).car_positions.l) = 1
    /\ Resolve(heap, h_again).class_colors = SampleColors
    /\ h_orig = Resolve(heap, Ref(1))

\* C30 as stated: an assignment into the decoded entity leaves the payload
\* with the value it had, and an assignment into the payload leaves the
\* entity with the value it was decoded to
C30_NoSharing ==
    /\ h_pc = "entity_written" => Resolve(heap, Ref(1)) = h_orig
    /\ h_pc = "data_written" => Resolve(heap, h_state) = h_first

====
